---------------------------- MODULE Spec2Model ----------------------------
(***************************************************************************)
(* EMACS -- Environmental Monitoring and Control System.                  *)
(*                                                                         *)
(* A model of the customizable TX sensor node firmware                     *)
(* (src/unnamed/part_000, emacs_full_sensor_node_01.ino): the globals of   *)
(* the sketch are the fields of the record tx, the nRF24L01 transceiver is *)
(* the field tx.radio, and the main loop is followed statement group by    *)
(* statement group through the program counter pc.                         *)
(*                                                                         *)
(* The Master firmware (src/emacs_RX_Master_03/emacs_RX_Master_03/         *)
(* emacs_RX_Master_03.ino) is the record rx, and what is in the RX FIFOs   *)
(* of the two transceivers is the record air.                              *)
(*                                                                         *)
(*   Spec        the node alone, reading any ping                          *)
(*   SpecFair    the node alone, the loop never halting                    *)
(*   SpecTriage  one reply of a node holding any boundary reading, and     *)
(*               the Master receiving it                                   *)
(*   SpecLink    the node and the Master exchanging records and pings      *)
(*   SpecIrq     the same with the interrupt handlers running              *)
(*   SpecPair    two nodes and the Master                                  *)
(*   SpecLatch   the node alone, its handlers against the polls of loop()  *)
(*   SpecStray   the Master alone, receiving the records of any transmitter*)
(***************************************************************************)
EXTENDS Integers, FiniteSets, Sequences, TLC

(***************************************************************************)
(* enum cmd_type, PA_type, Alarm_type, Dng_level                           *)
(***************************************************************************)
nada == 0
chan_chg == 1
rad_chg == 2
pa_chg == 3
all_chg == 4
tar_chg == 5
response == 6

PA_MIN == 0
PA_MAX == 3

ALM_NONE == 0
HUM_LOW == 1
HUM_HIGH == 2
TEMP_LOW == 3
CO2_LOW == 4
TEMP_HIGH == 5
CO2_HIGH == 6
CO2_GOOD == 7
LOUDNOISE == 8
INTRUDER == 9
CO2_DNG == 10
TEMP_FIRE == 11

DNG_NONE == 0
DNG_LOW == 1
DNG_MED == 2
DNG_HIGH == 3
DNG_MAX == 4

(***************************************************************************)
(* Bounds of the model: the values the fields of a ping that arrives over  *)
(* the air are drawn from.                                                 *)
(***************************************************************************)
\* my_cmd ranges over 0..MaxCmd: the seven cmd_type values and one value
\* that no case of the switch handles.
MaxCmd == 7
\* r_cmd: 0 (below the valid radio numbers 1..5), a valid radio number and
\* 6 (above them).
PingRadios == {0, 2, 6}

\* ch_cmd: channel 0 (what a zeroed record holds) and the security channel.
PingChannels == {0, 81}
\* tar_cmd: 0 (what a zeroed record holds), the radio number the error
\* correction falls back to, one the console can select, the boot radio.
PingTargets == {0, 1, 2, 5}
\* pa_cmd: the lowest and the highest value of PA_type
PingPowers == {PA_MIN, PA_MAX}

\* The characters typed at the serial console of the TX node: of the eight
\* it reacts to, the connection check, a radio number and a channel change.
ConsoleChars == {"R", "2", "E"}

(***************************************************************************)
(* struct pingCmd, struct dataStruct                                       *)
(***************************************************************************)
pingCmd(my, ch, r, pa, tar, alm, dng) ==
    [my_cmd |-> my, ch_cmd |-> ch, r_cmd |-> r, pa_cmd |-> pa,
     tar_cmd |-> tar, alm_cmd |-> alm, dng_cmd |-> dng]

dataStruct(ch, rn, co2, h, c, f, pir, gate, ping) ==
    [chNum |-> ch, radNum |-> rn, co2_val |-> co2, h_val |-> h, c_val |-> c,
     f_val |-> f, pir_state |-> pir, audio_gate |-> gate, ping |-> ping]

\* struct pingCmd PongMessage[1] = {0};
ZeroPing == pingCmd(0, 0, 0, 0, 0, 0, 0)

\* struct dataStruct SentMessage[1] = {0};
ZeroData == dataStruct(0, 0, 0, 0, 0, 0, 0, 0, ZeroPing)

\* The pings that can arrive, built as the Master's send_ping_cmd builds
\* them: alm_cmd = ALM_NONE and dng_cmd = DNG_NONE always. A field the
\* command does not use is filled as the Master's console fills it: r_cmd
\* repeats the target unless the command changes the radio number, pa_cmd
\* is PA_MIN unless the command changes the power.
Pings ==
    { pingCmd(my, ch,
              IF my \in {rad_chg, all_chg} THEN r ELSE tar,
              IF my \in {pa_chg, all_chg} THEN pa ELSE PA_MIN,
              tar, ALM_NONE, DNG_NONE) :
        my \in 0..MaxCmd, ch \in PingChannels, r \in PingRadios,
        pa \in PingPowers, tar \in PingTargets }

(***************************************************************************)
(* The state.                                                              *)
(*   tx    the TX node: its globals (radNum, chNum, pwrNum, myNum, tarNum, *)
(*         almNum, dngNum, the copies myCmd..dngCmd of the received ping,  *)
(*         the sensor variables, the flags), SentMessage[0],               *)
(*         PongMessage[0] and the transceiver (radio).                     *)
(*   pc    the position of the main loop.                                  *)
(*   hist  for the ping read in this iteration of the loop (active): what  *)
(*         the node was when it was read (pre) and whether the switch of   *)
(*         get_pong_cmd_RX ran for it (applied).                           *)
(*   rx    the Master: its globals (the *_msg copies of the last record,   *)
(*         ReceivedMessage[0], PingMessage[0]), its transceiver, the four  *)
(*         rows of its LCD, the lines pir_routine and audio_routine have   *)
(*         printed in this iteration of its loop (serial), the position    *)
(*         of its loop (at) and whether this iteration read a record       *)
(*         (read).                                                         *)
(*   air   the payloads waiting in the RX FIFO of the Master's transceiver *)
(*         (toMaster) and of the node's (toTX): the words received         *)
(*         (payload) and, for reference, the struct that was written       *)
(*         (wrote).                                                        *)
(*   peer  the globals and the transceiver of a second TX node, between    *)
(*         two iterations of its loop; it takes part in SpecPair only.     *)
(*   stored  history: whether pirISR (pir) and audioISR (audio) have       *)
(*         stored a high pin during a send operation since loop() last     *)
(*         read that pin; it takes part in SpecLatch only.                 *)
(***************************************************************************)
VARIABLES tx, pc, hist, rx, air, peer, stored

vars == <<tx, pc, hist, rx, air, peer, stored>>

\* No handler has stored a high pin.
NoneStored == [pir |-> FALSE, audio |-> FALSE]

\* NodeIdentity: the node's active radio parameters.
Identity(n) == [radNum |-> n.radNum, chNum |-> n.chNum, pwrNum |-> n.pwrNum]

(***************************************************************************)
(* The transceiver, as far as the sketch configures it: the RF channel,    *)
(* the PA level, the index in addresses[] of the writing pipe and of       *)
(* reading pipe 1, and whether it is in RX (listening) mode.               *)
(***************************************************************************)
\* void setPowerLevel(PA_type pwr): a value outside the four cases leaves
\* the PA level as it is.
setPowerLevel(radio, pwr) ==
    IF pwr \in PA_MIN..PA_MAX THEN [radio EXCEPT !.pa = pwr] ELSE radio

\* void initRadioValues(int rn, int mychannel, PA_type pat)
initRadioValues(n, rn, mychannel, pat) ==
    [n EXCEPT !.radNum = rn, !.chNum = mychannel, !.pwrNum = pat]

\* The error correction with its lower test off by one: 0 passes.
CorrectRn_ZeroPasses(rn) == IF (rn >= 0) /\ (rn < 6) THEN rn ELSE 1

\* rn = ((rn > 0) && (rn < 6)) ? rn : 1; // ERROR CORRECTION
CorrectRn(rn) == IF (rn > 0) /\ (rn < 6) THEN rn ELSE 1

\* setupTXRadio without its radio.setChannel(mychannel).
setupTXRadio_NoSetChannel(n, rn, mychannel, pat) ==
    LET r  == CorrectRn(rn)
        r2 == setPowerLevel(n.radio, pat)
        r3 == [r2 EXCEPT !.wpipe = r, !.rpipe = 0, !.listening = TRUE]
    IN  [n EXCEPT !.radNum = r, !.chNum = mychannel, !.pwrNum = pat,
                  !.radio = r3]

\* setupTXRadio with radio.openWritingPipe(addresses[0]).
setupTXRadio_WritesOnZero(n, rn, mychannel, pat) ==
    LET r  == CorrectRn(rn)
        r1 == [n.radio EXCEPT !.channel = mychannel]
        r2 == setPowerLevel(r1, pat)
        r3 == [r2 EXCEPT !.wpipe = 0, !.rpipe = 0, !.listening = TRUE]
    IN  [n EXCEPT !.radNum = r, !.chNum = mychannel, !.pwrNum = pat,
                  !.radio = r3]

\* void setupTXRadio(int rn, int mychannel, PA_type pat)
setupTXRadio(n, rn, mychannel, pat) ==
    LET r  == CorrectRn(rn)
        r1 == [n.radio EXCEPT !.channel = mychannel]
        r2 == setPowerLevel(r1, pat)
        r3 == [r2 EXCEPT !.wpipe = r, !.rpipe = 0, !.listening = TRUE]
    IN  [n EXCEPT !.radNum = r, !.chNum = mychannel, !.pwrNum = pat,
                  !.radio = r3]

\* void get_pong_cmd(): the Sent* globals are loaded from SentMessage[0].ping
\* and the *Cmd globals from PongMessage[0].
get_pong_cmd(n) ==
    [n EXCEPT !.myNum  = n.SentMessage.ping.my_cmd,
              !.chNum  = n.SentMessage.ping.ch_cmd,
              !.radNum = n.SentMessage.ping.r_cmd,
              !.pwrNum = n.SentMessage.ping.pa_cmd,
              !.tarNum = n.SentMessage.ping.tar_cmd,
              !.almNum = n.SentMessage.ping.alm_cmd,
              !.dngNum = n.SentMessage.ping.dng_cmd,
              !.myCmd  = n.PongMessage.my_cmd,
              !.chCmd  = n.PongMessage.ch_cmd,
              !.radCmd = n.PongMessage.r_cmd,
              !.paCmd  = n.PongMessage.pa_cmd,
              !.tarCmd = n.PongMessage.tar_cmd,
              !.almCmd = n.PongMessage.alm_cmd,
              !.dngCmd = n.PongMessage.dng_cmd]

\* The guard without its test of the target.
PongGuard_ChannelOnly(n) == (n.chCmd = n.chNum)

\* if ((chCmd == chNum) && (tarCmd == radNum))
PongGuard(n) == (n.chCmd = n.chNum) /\ (n.tarCmd = n.radNum)

\* The switch with case 2 falling into case 3 (its break missing, its
\* assignment that of case 3).
PongSwitch_RadAsPa(n) ==
    CASE n.myCmd = nada     -> n
      [] n.myCmd = chan_chg -> [n EXCEPT !.chNum = n.PongMessage.ch_cmd]
      [] n.myCmd = rad_chg  -> [n EXCEPT !.pwrNum = n.PongMessage.pa_cmd]
      [] n.myCmd = pa_chg   -> [n EXCEPT !.pwrNum = n.PongMessage.pa_cmd]
      [] n.myCmd = all_chg  -> [n EXCEPT !.chNum = n.PongMessage.ch_cmd,
                                         !.radNum = n.PongMessage.r_cmd,
                                         !.pwrNum = n.PongMessage.pa_cmd]
      [] n.myCmd = tar_chg  ->
            [n EXCEPT !.SentMessage.ping.tar_cmd = n.PongMessage.tar_cmd]
      [] n.myCmd = response ->
            [n EXCEPT !.SentMessage.ping.tar_cmd = n.PongMessage.tar_cmd]
      [] OTHER -> n

\* switch (myCmd) { case 0: ... case 6: ... default: break; }
PongSwitch(n) ==
    CASE n.myCmd = nada     -> n
      [] n.myCmd = chan_chg -> [n EXCEPT !.chNum = n.PongMessage.ch_cmd]
      [] n.myCmd = rad_chg  -> [n EXCEPT !.radNum = n.PongMessage.r_cmd]
      [] n.myCmd = pa_chg   -> [n EXCEPT !.pwrNum = n.PongMessage.pa_cmd]
      [] n.myCmd = all_chg  -> [n EXCEPT !.chNum = n.PongMessage.ch_cmd,
                                         !.radNum = n.PongMessage.r_cmd,
                                         !.pwrNum = n.PongMessage.pa_cmd]
      [] n.myCmd = tar_chg  ->
            [n EXCEPT !.SentMessage.ping.tar_cmd = n.PongMessage.tar_cmd]
      [] n.myCmd = response ->
            [n EXCEPT !.SentMessage.ping.tar_cmd = n.PongMessage.tar_cmd]
      [] OTHER -> n

\* pack_sent_msg without SentMessage[0].ping.r_cmd = radNum;
pack_sent_msg_KeepsPingRadio(n) ==
    [n EXCEPT !.SentMessage =
        dataStruct(n.chNum, n.radNum, n.co2Num, n.hNum, n.tNum, n.fNum,
                   n.pirNum, n.gateNum,
                   pingCmd(n.myNum, n.chNum, n.SentMessage.ping.r_cmd,
                           n.pwrNum, n.tarNum, n.almNum, n.dngNum))]

\* pack_sent_msg without SentMessage[0].ping.pa_cmd = pwrNum;
pack_sent_msg_KeepsPingPower(n) ==
    [n EXCEPT !.SentMessage =
        dataStruct(n.chNum, n.radNum, n.co2Num, n.hNum, n.tNum, n.fNum,
                   n.pirNum, n.gateNum,
                   pingCmd(n.myNum, n.chNum, n.radNum,
                           n.SentMessage.ping.pa_cmd, n.tarNum,
                           n.almNum, n.dngNum))]

\* pack_sent_msg without SentMessage[0].radNum = radNum;
pack_sent_msg_KeepsRadNum(n) ==
    [n EXCEPT !.SentMessage =
        dataStruct(n.chNum, n.SentMessage.radNum, n.co2Num, n.hNum, n.tNum,
                   n.fNum, n.pirNum, n.gateNum,
                   pingCmd(n.myNum, n.chNum, n.radNum, n.pwrNum, n.tarNum,
                           n.almNum, n.dngNum))]

\* void pack_sent_msg()
pack_sent_msg(n) ==
    [n EXCEPT !.SentMessage =
        dataStruct(n.chNum, n.radNum, n.co2Num, n.hNum, n.tNum, n.fNum,
                   n.pirNum, n.gateNum,
                   pingCmd(n.myNum, n.chNum, n.radNum, n.pwrNum, n.tarNum,
                           n.almNum, n.dngNum))]

(***************************************************************************)
(* void triage_data(): every threshold test that fires raises alm_temp     *)
(* and dng_temp to its own alarm and danger when these are >= the          *)
(* running values.                                                         *)
(***************************************************************************)
\* The same with the danger raised only when the alarm is.
Raise_Paired(fires, alm, dng, t) ==
    IF fires
    THEN IF alm >= t.alm THEN [alm |-> alm, dng |-> dng] ELSE t
    ELSE t

Raise(fires, alm, dng, t) ==
    IF fires
    THEN [alm |-> IF alm >= t.alm THEN alm ELSE t.alm,
          dng |-> IF dng >= t.dng THEN dng ELSE t.dng]
    ELSE t

\* triage_data with its high-temperature test written as the Master writes
\* its lower edge, c_val > 40.
TriageTX_TempHighStrict(m) ==
    LET t0  == [alm |-> 0, dng |-> 0]
        t1  == Raise(m.h_val < 10, HUM_LOW, DNG_NONE, t0)
        t2  == Raise(m.h_val >= 85, HUM_HIGH, DNG_LOW, t1)
        t3  == Raise(m.c_val < 20, TEMP_LOW, DNG_LOW, t2)
        t4  == Raise(m.c_val > 40 /\ m.c_val < 100, TEMP_HIGH, DNG_HIGH, t3)
        t5  == Raise(m.c_val >= 100, TEMP_FIRE, DNG_MAX, t4)
        t6  == Raise(m.co2_val <= 0, CO2_LOW, DNG_NONE, t5)
        t7  == Raise(m.co2_val >= 400 /\ m.co2_val <= 1600,
                     CO2_GOOD, DNG_NONE, t6)
        t8  == Raise(m.co2_val >= 1800 /\ m.co2_val < 3000,
                     CO2_HIGH, DNG_HIGH, t7)
        t9  == Raise(m.co2_val >= 3000, CO2_DNG, DNG_MAX, t8)
        t10 == Raise(m.audio_gate = 1, LOUDNOISE, DNG_MED, t9)
        t11 == Raise(m.pir_state = 1, INTRUDER, DNG_HIGH, t10)
    IN  t11

\* triage_data with the upper edge of its good-CO2 band excluded.
TriageTX_Co2GoodBelow1600(m) ==
    LET t0  == [alm |-> 0, dng |-> 0]
        t1  == Raise(m.h_val < 10, HUM_LOW, DNG_NONE, t0)
        t2  == Raise(m.h_val >= 85, HUM_HIGH, DNG_LOW, t1)
        t3  == Raise(m.c_val < 20, TEMP_LOW, DNG_LOW, t2)
        t4  == Raise(m.c_val >= 40 /\ m.c_val < 100, TEMP_HIGH, DNG_HIGH, t3)
        t5  == Raise(m.c_val >= 100, TEMP_FIRE, DNG_MAX, t4)
        t6  == Raise(m.co2_val <= 0, CO2_LOW, DNG_NONE, t5)
        t7  == Raise(m.co2_val >= 400 /\ m.co2_val < 1600,
                     CO2_GOOD, DNG_NONE, t6)
        t8  == Raise(m.co2_val >= 1800 /\ m.co2_val < 3000,
                     CO2_HIGH, DNG_HIGH, t7)
        t9  == Raise(m.co2_val >= 3000, CO2_DNG, DNG_MAX, t8)
        t10 == Raise(m.audio_gate = 1, LOUDNOISE, DNG_MED, t9)
        t11 == Raise(m.pir_state = 1, INTRUDER, DNG_HIGH, t10)
    IN  t11

\* triage_data with its fire test written as the Master writes it,
\* c_val > 100.
TriageTX_FireStrict(m) ==
    LET t0  == [alm |-> 0, dng |-> 0]
        t1  == Raise(m.h_val < 10, HUM_LOW, DNG_NONE, t0)
        t2  == Raise(m.h_val >= 85, HUM_HIGH, DNG_LOW, t1)
        t3  == Raise(m.c_val < 20, TEMP_LOW, DNG_LOW, t2)
        t4  == Raise(m.c_val >= 40 /\ m.c_val < 100, TEMP_HIGH, DNG_HIGH, t3)
        t5  == Raise(m.c_val > 100, TEMP_FIRE, DNG_MAX, t4)
        t6  == Raise(m.co2_val <= 0, CO2_LOW, DNG_NONE, t5)
        t7  == Raise(m.co2_val >= 400 /\ m.co2_val <= 1600,
                     CO2_GOOD, DNG_NONE, t6)
        t8  == Raise(m.co2_val >= 1800 /\ m.co2_val < 3000,
                     CO2_HIGH, DNG_HIGH, t7)
        t9  == Raise(m.co2_val >= 3000, CO2_DNG, DNG_MAX, t8)
        t10 == Raise(m.audio_gate = 1, LOUDNOISE, DNG_MED, t9)
        t11 == Raise(m.pir_state = 1, INTRUDER, DNG_HIGH, t10)
    IN  t11

\* The same with alm_temp and dng_temp starting from the record's own
\* ping.alm_cmd and ping.dng_cmd.
TriageTX_FromPrior(m) ==
    LET t0  == [alm |-> m.ping.alm_cmd, dng |-> m.ping.dng_cmd]
        t1  == Raise(m.h_val < 10, HUM_LOW, DNG_NONE, t0)
        t2  == Raise(m.h_val >= 85, HUM_HIGH, DNG_LOW, t1)
        t3  == Raise(m.c_val < 20, TEMP_LOW, DNG_LOW, t2)
        t4  == Raise(m.c_val >= 40 /\ m.c_val < 100, TEMP_HIGH, DNG_HIGH, t3)
        t5  == Raise(m.c_val >= 100, TEMP_FIRE, DNG_MAX, t4)
        t6  == Raise(m.co2_val <= 0, CO2_LOW, DNG_NONE, t5)
        t7  == Raise(m.co2_val >= 400 /\ m.co2_val <= 1600,
                     CO2_GOOD, DNG_NONE, t6)
        t8  == Raise(m.co2_val >= 1800 /\ m.co2_val < 3000,
                     CO2_HIGH, DNG_HIGH, t7)
        t9  == Raise(m.co2_val >= 3000, CO2_DNG, DNG_MAX, t8)
        t10 == Raise(m.audio_gate = 1, LOUDNOISE, DNG_MED, t9)
        t11 == Raise(m.pir_state = 1, INTRUDER, DNG_HIGH, t10)
    IN  t11

TriageTX(m) ==
    LET t0  == [alm |-> 0, dng |-> 0]
        t1  == Raise(m.h_val < 10, HUM_LOW, DNG_NONE, t0)
        t2  == Raise(m.h_val >= 85, HUM_HIGH, DNG_LOW, t1)
        t3  == Raise(m.c_val < 20, TEMP_LOW, DNG_LOW, t2)
        t4  == Raise(m.c_val >= 40 /\ m.c_val < 100, TEMP_HIGH, DNG_HIGH, t3)
        t5  == Raise(m.c_val >= 100, TEMP_FIRE, DNG_MAX, t4)
        t6  == Raise(m.co2_val <= 0, CO2_LOW, DNG_NONE, t5)
        t7  == Raise(m.co2_val >= 400 /\ m.co2_val <= 1600,
                     CO2_GOOD, DNG_NONE, t6)
        t8  == Raise(m.co2_val >= 1800 /\ m.co2_val < 3000,
                     CO2_HIGH, DNG_HIGH, t7)
        t9  == Raise(m.co2_val >= 3000, CO2_DNG, DNG_MAX, t8)
        t10 == Raise(m.audio_gate = 1, LOUDNOISE, DNG_MED, t9)
        t11 == Raise(m.pir_state = 1, INTRUDER, DNG_HIGH, t10)
    IN  t11

\* triage_data without the two assignments to SentMessage[0].ping.
triage_data_GlobalsOnly(n) ==
    LET t == TriageTX(n.SentMessage)
    IN  [n EXCEPT !.almNum = t.alm,
                  !.dngNum = t.dng]

triage_data(n) ==
    LET t == TriageTX(n.SentMessage)
    IN  [n EXCEPT !.SentMessage.ping.alm_cmd = t.alm,
                  !.SentMessage.ping.dng_cmd = t.dng,
                  !.almNum = t.alm,
                  !.dngNum = t.dng]

\* radio.stopListening(); // Sets radio to TX mode
stopListening(n) == [n EXCEPT !.radio.listening = FALSE]

\* radio.openReadingPipe(1,addresses[0]); without radio.startListening();
backToListening_NoStart(n) == [n EXCEPT !.radio.rpipe = 0]

\* radio.openReadingPipe(1,addresses[0]); radio.startListening();
backToListening(n) == [n EXCEPT !.radio.rpipe = 0, !.radio.listening = TRUE]


(***************************************************************************)
(* The records on the air. radio.write(&SentMessage, sizeof(SentMessage))  *)
(* sends the bytes of the struct and radio.read(&ReceivedMessage,          *)
(* sizeof(ReceivedMessage)) copies the payload over the receiver's struct: *)
(* every member is a 16-bit int (or an enum of that size), in the order of *)
(* the declaration. A payload shorter than the struct read is padded with  *)
(* zeros (the static payload of the transceiver).                          *)
(***************************************************************************)
\* The members of struct pingCmd and of struct dataStruct (before its
\* member ping) in the order the TX sketch declares them.
pingCmdTX ==
    <<"my_cmd", "ch_cmd", "r_cmd", "pa_cmd", "tar_cmd", "alm_cmd", "dng_cmd">>

dataStructTX ==
    <<"chNum", "radNum", "co2_val", "h_val", "c_val", "f_val", "pir_state",
      "audio_gate">>

\* The Master's struct dataStruct with h_val and c_val declared in the
\* other order.
dataStructMaster_Swapped ==
    <<"chNum", "radNum", "co2_val", "c_val", "h_val", "f_val", "pir_state",
      "audio_gate">>

\* The same members in the order the Master sketch declares them.
dataStructMaster ==
    <<"chNum", "radNum", "co2_val", "h_val", "c_val", "f_val", "pir_state",
      "audio_gate">>

pingCmdMaster ==
    <<"my_cmd", "ch_cmd", "r_cmd", "pa_cmd", "tar_cmd", "alm_cmd", "dng_cmd">>

\* An int in memory, and the int a word of memory stands for.
toWord(v) == v % 65536

fromWord(w) == IF w >= 32768 THEN w - 65536 ELSE w

\* The words of a struct whose members are laid out as in layout.
structWords(layout, r) == [i \in 1..Len(layout) |-> toWord(r[layout[i]])]

\* The member f of a struct laid out as in layout over the words w.
member(layout, w, f) ==
    LET i == CHOOSE k \in 1..Len(layout) : layout[k] = f
    IN  fromWord(IF i <= Len(w) THEN w[i] ELSE 0)

pingOf(layout, w) ==
    pingCmd(member(layout, w, "my_cmd"), member(layout, w, "ch_cmd"),
            member(layout, w, "r_cmd"), member(layout, w, "pa_cmd"),
            member(layout, w, "tar_cmd"), member(layout, w, "alm_cmd"),
            member(layout, w, "dng_cmd"))

dataOf(layout, pingLayout, w) ==
    dataStruct(member(layout, w, "chNum"), member(layout, w, "radNum"),
               member(layout, w, "co2_val"), member(layout, w, "h_val"),
               member(layout, w, "c_val"), member(layout, w, "f_val"),
               member(layout, w, "pir_state"), member(layout, w, "audio_gate"),
               pingOf(pingLayout, SubSeq(w, Len(layout) + 1, Len(w))))

\* TX node: radio.write(&SentMessage, sizeof(SentMessage));
write_SentMessage(r) ==
    structWords(dataStructTX, r) \o structWords(pingCmdTX, r.ping)

\* Master: radio.read(&ReceivedMessage, sizeof(ReceivedMessage));
read_ReceivedMessage(w) == dataOf(dataStructMaster, pingCmdMaster, w)

\* Master: radio.write(&PingMessage, sizeof(PingMessage));
write_PingMessage(p) == structWords(pingCmdMaster, p)

\* TX node: radio.read(&PongMessage, sizeof(PongMessage));
read_PongMessage(w) == pingOf(pingCmdTX, w)

(***************************************************************************)
(* The Master (emacs_RX_Master_03.ino).                                    *)
(***************************************************************************)
\* The globals as declared.
MasterGlobals ==
    [co2_msg |-> 0, pir_msg |-> 0, gate_msg |-> 0, h_msg |-> 0, c_msg |-> 0,
     f_msg |-> 0, cmd_msg |-> 0, ch_msg |-> 0, rad_msg |-> 0, pa_msg |-> 0,
     tar_msg |-> 0, alm_msg |-> 0, dng_msg |-> 0,
     ReceivedMessage |-> ZeroData, PingMessage |-> ZeroPing,
     myData |-> [chNum |-> 0, radNum |-> 0],
     msg_pin_val |-> 0,
     sensorOffset |-> 0,
     radio |-> [channel |-> 0, pa |-> 0, wpipe |-> 0, rpipes |-> {},
                listening |-> FALSE],
     lcd |-> <<>>, serial |-> <<>>, at |-> "receive", read |-> FALSE]

\* void setupMasterRadio(int mychannel, PA_type pat): reading pipes 1..5
\* are opened on addresses[1..5], the writing pipe on addresses[0];
\* myData.chNum = mychannel; myData.radNum = 0;
setupMasterRadio(m, mychannel, pat) ==
    LET r1 == setPowerLevel(m.radio, pat)
    IN  [m EXCEPT !.radio = [r1 EXCEPT !.channel = mychannel, !.wpipe = 0,
                                       !.rpipes = 1..5, !.listening = TRUE],
                  !.myData = [chNum |-> mychannel, radNum |-> 0]]

\* setup(): the banner on the LCD, then setupMasterRadio(81,PA_MIN).
masterSetup ==
    setupMasterRadio(
        [MasterGlobals EXCEPT !.lcd = << <<"Environmental Sensor">>,
                                         <<"Standby for data">>,
                                         <<"TEST DATA THIS LINE">>,
                                         <<"CES, LLC.">> >>],
        81, PA_MIN)

\* void parseRcvMsg(): ch_msg and rad_msg are first set from chNum and
\* radNum and then from ping.ch_cmd and ping.r_cmd.
parseRcvMsg(m) ==
    LET R == m.ReceivedMessage
    IN  [m EXCEPT !.co2_msg  = R.co2_val + m.sensorOffset,
                  !.h_msg    = R.h_val,
                  !.c_msg    = R.c_val,
                  !.f_msg    = R.f_val,
                  !.pir_msg  = R.pir_state,
                  !.gate_msg = R.audio_gate,
                  !.cmd_msg  = R.ping.my_cmd,
                  !.ch_msg   = R.ping.ch_cmd,
                  !.rad_msg  = R.ping.r_cmd,
                  !.pa_msg   = R.ping.pa_cmd,
                  !.tar_msg  = R.ping.tar_cmd,
                  !.alm_msg  = R.ping.alm_cmd,
                  !.dng_msg  = R.ping.dng_cmd]

\* triage_msg with its humidity test written h_val > 85.
TriageMaster_HumHighStrict(m) ==
    LET t0  == [alm |-> 0, dng |-> 0]
        t1  == Raise(m.h_val < 10, HUM_LOW, DNG_NONE, t0)
        t2  == Raise(m.h_val > 85, HUM_HIGH, DNG_LOW, t1)
        t3  == Raise(m.c_val < 20, TEMP_LOW, DNG_LOW, t2)
        t4  == Raise(m.c_val > 40, TEMP_HIGH, DNG_HIGH, t3)
        t5  == Raise(m.c_val > 100, TEMP_FIRE, DNG_MAX, t4)
        t6  == Raise(m.co2_val <= 0, CO2_LOW, DNG_NONE, t5)
        t7  == Raise(m.co2_val >= 400 /\ m.co2_val < 2000,
                     CO2_GOOD, DNG_NONE, t6)
        t8  == Raise(m.co2_val >= 2000 /\ m.co2_val < 3000,
                     CO2_HIGH, DNG_HIGH, t7)
        t9  == Raise(m.co2_val >= 3000, CO2_DNG, DNG_MAX, t8)
        t10 == Raise(m.pir_state = 1, INTRUDER, DNG_HIGH, t9)
        t11 == Raise(m.audio_gate = 1, LOUDNOISE, DNG_MED, t10)
    IN  t11

\* void triage_msg(): the threshold tests on the copy TempMessage[0] of
\* ReceivedMessage[0], each raising alm_temp and dng_temp as in
\* triage_data.
TriageMaster(m) ==
    LET t0  == [alm |-> 0, dng |-> 0]
        t1  == Raise(m.h_val < 10, HUM_LOW, DNG_NONE, t0)
        t2  == Raise(m.h_val >= 85, HUM_HIGH, DNG_LOW, t1)
        t3  == Raise(m.c_val < 20, TEMP_LOW, DNG_LOW, t2)
        t4  == Raise(m.c_val > 40, TEMP_HIGH, DNG_HIGH, t3)
        t5  == Raise(m.c_val > 100, TEMP_FIRE, DNG_MAX, t4)
        t6  == Raise(m.co2_val <= 0, CO2_LOW, DNG_NONE, t5)
        t7  == Raise(m.co2_val >= 400 /\ m.co2_val < 2000,
                     CO2_GOOD, DNG_NONE, t6)
        t8  == Raise(m.co2_val >= 2000 /\ m.co2_val < 3000,
                     CO2_HIGH, DNG_HIGH, t7)
        t9  == Raise(m.co2_val >= 3000, CO2_DNG, DNG_MAX, t8)
        t10 == Raise(m.pir_state = 1, INTRUDER, DNG_HIGH, t9)
        t11 == Raise(m.audio_gate = 1, LOUDNOISE, DNG_MED, t10)
    IN  t11

\* triage_msg without its final alm_msg = alm_temp; dng_msg = dng_temp;
triage_msg_NoGlobals(m) ==
    LET t == TriageMaster(m.ReceivedMessage)
    IN  [m EXCEPT !.ReceivedMessage.ping.alm_cmd = t.alm,
                  !.ReceivedMessage.ping.dng_cmd = t.dng]

triage_msg(m) ==
    LET t == TriageMaster(m.ReceivedMessage)
    IN  [m EXCEPT !.ReceivedMessage.ping.alm_cmd = t.alm,
                  !.ReceivedMessage.ping.dng_cmd = t.dng,
                  !.alm_msg = t.alm,
                  !.dng_msg = t.dng]

\* void compact_lcd_routine(void): the four rows printed.
compact_lcd_routine(m) ==
    [m EXCEPT !.lcd =
        << <<"Ch:", m.ch_msg, "R:", m.rad_msg, "CO2:", m.co2_msg>>,
           <<"H:", m.h_msg, m.c_msg, m.f_msg>>,
           <<"PIR:", m.pir_msg, "Aud:", m.gate_msg, "Target:", m.tar_msg>>,
           <<"Alm:", m.alm_msg, "Dng:", m.dng_msg>> >>]

\* void pir_routine(void), void audio_routine(void)
pir_routine(m) ==
    [m EXCEPT !.serial = Append(@, IF m.pir_msg # 0
                                   THEN "Intruder Detected"
                                   ELSE "No Intruders")]

audio_routine(m) ==
    [m EXCEPT !.serial = Append(@, IF m.gate_msg # 0
                                   THEN "Audio Detected"
                                   ELSE "All Quiet")]

\* receive_rm whose default case classifies and displays the record.
receive_rm_DefaultDisplays(m, radnum) ==
    IF radnum \in {3, 4, 5}
    THEN LET d == compact_lcd_routine(triage_msg(m))
             p == IF d.pir_msg # 0 THEN pir_routine(d) ELSE d
         IN  IF p.gate_msg # 0 THEN audio_routine(p) ELSE p
    ELSE compact_lcd_routine(triage_msg(m))

\* receive_rm with case 2 running the routines of the security nodes.
receive_rm_Case2Security(m, radnum) ==
    IF radnum \in {0, 1}
    THEN compact_lcd_routine(triage_msg(m))
    ELSE IF radnum \in {2, 3, 4, 5}
    THEN LET d == compact_lcd_routine(triage_msg(m))
             p == IF d.pir_msg # 0 THEN pir_routine(d) ELSE d
         IN  IF p.gate_msg # 0 THEN audio_routine(p) ELSE p
    ELSE m

\* void receive_rm(int radnum)
receive_rm(m, radnum) ==
    IF radnum \in {0, 1, 2}
    THEN compact_lcd_routine(triage_msg(m))
    ELSE IF radnum \in {3, 4, 5}
    THEN LET d == compact_lcd_routine(triage_msg(m))
             p == IF d.pir_msg # 0 THEN pir_routine(d) ELSE d
         IN  IF p.gate_msg # 0 THEN audio_routine(p) ELSE p
    ELSE m

\* send_ping_cmd that also sets the Master's own power to the ping's.
send_ping_cmd_SetsOwnPower(m, cmd, ch, rn, pat, target) ==
    [m EXCEPT !.PingMessage = pingCmd(cmd, ch, rn, pat, target,
                                      ALM_NONE, DNG_NONE),
              !.radio = [setPowerLevel(m.radio, pat)
                           EXCEPT !.wpipe = 0, !.listening = TRUE]]

\* void send_ping_cmd(cmd_type cmd, int ch, int rn, PA_type pat, int target)
\* as far as the Master's own state: the ping built in PingMessage[0],
\* written on addresses[0], the radio back in RX mode.
send_ping_cmd(m, cmd, ch, rn, pat, target) ==
    [m EXCEPT !.PingMessage = pingCmd(cmd, ch, rn, pat, target,
                                      ALM_NONE, DNG_NONE),
              !.radio.wpipe = 0,
              !.radio.listening = TRUE]

\* Nothing on the air.
NoAir == [toMaster |-> <<>>, toTX |-> <<>>]


(***************************************************************************)
(* The node after setup(): the globals as declared, then                   *)
(* initRadioValues(5, 81, PA_MIN) and setupTXRadio(radNum,chNum,pwrNum).   *)
(***************************************************************************)
Globals ==
    [radNum |-> 0, chNum |-> 0, pwrNum |-> 0, myNum |-> 0, tarNum |-> 0,
     almNum |-> 0, dngNum |-> 0,
     myCmd |-> 0, chCmd |-> 0, radCmd |-> 0, paCmd |-> 0, tarCmd |-> 0,
     almCmd |-> 0, dngCmd |-> 0,
     co2Num |-> 450, hNum |-> 40, tNum |-> 25, fNum |-> 72,
     pirNum |-> 0, gateNum |-> 0,
     pir_pin_val |-> 0, audio_gate_val |-> 0, msg_pin_val |-> 0,
     intruderFlag |-> FALSE, audioFlag |-> FALSE, respFlag |-> FALSE,
     SentMessage |-> ZeroData, PongMessage |-> ZeroPing,
     radio |-> [channel |-> 0, pa |-> 0, wpipe |-> 0, rpipe |-> 0,
                listening |-> FALSE]]

setup ==
    LET n == initRadioValues(Globals, 5, 81, PA_MIN)
    IN  setupTXRadio(n, n.radNum, n.chNum, n.pwrNum)

\* What the claims call "before the record arrived".
Snapshot(n) ==
    [id |-> Identity(n), radio |-> n.radio,
     tar |-> n.SentMessage.ping.tar_cmd]

NoHist == [active |-> FALSE, applied |-> FALSE, pre |-> Snapshot(setup)]

Init ==
    /\ tx = setup
    /\ pc = "pir"
    /\ hist = NoHist
    /\ rx = masterSetup
    /\ air = NoAir
    /\ peer = setup
    /\ stored = NoneStored

(***************************************************************************)
(* loop(): the PIR pin is read and latched, transmit_pir_state sends when  *)
(* the flag is set.                                                        *)
(***************************************************************************)
PollPir ==
    /\ pc = "pir"
    /\ \E v \in {0, 1} :
          LET flag == (v = 1) \/ tx.intruderFlag
          IN  /\ tx' = [tx EXCEPT !.pir_pin_val = v, !.intruderFlag = flag]
              /\ pc' = IF flag THEN "pir_pack" ELSE "audio"
    /\ UNCHANGED hist

\* transmit_pir_state: pirNum = pirFlag; pack_sent_msg(); triage_data();
\* radio.stopListening();
PirPack ==
    /\ pc = "pir_pack"
    /\ tx' = stopListening(triage_data(pack_sent_msg(
                 [tx EXCEPT !.pirNum = 1])))
    /\ pc' = "pir_write"
    /\ UNCHANGED hist

\* radio.write(&SentMessage, ...); radio.openReadingPipe(1,addresses[0]);
\* radio.startListening();
PirWrite ==
    /\ pc = "pir_write"
    /\ tx' = backToListening(tx)
    /\ pc' = "pir_clear"
    /\ UNCHANGED hist

\* The same without pirNum = false;
PirClear_KeepsPirNum ==
    /\ pc = "pir_clear"
    /\ tx' = [tx EXCEPT !.intruderFlag = FALSE,
                        !.SentMessage.pir_state = tx.pirNum]
    /\ pc' = "audio"
    /\ UNCHANGED hist

\* The same without intruderFlag = false;
PirClear_KeepsFlag ==
    /\ pc = "pir_clear"
    /\ tx' = [tx EXCEPT !.pirNum = 0, !.SentMessage.pir_state = 0]
    /\ pc' = "audio"
    /\ UNCHANGED hist

\* delay(5000); pirNum = false; intruderFlag = false;
\* SentMessage[0].pir_state = pirNum;
PirClear ==
    /\ pc = "pir_clear"
    /\ tx' = [tx EXCEPT !.pirNum = 0, !.intruderFlag = FALSE,
                        !.SentMessage.pir_state = 0]
    /\ pc' = "audio"
    /\ UNCHANGED hist

PollAudio ==
    /\ pc = "audio"
    /\ \E v \in {0, 1} :
          LET flag == (v = 1) \/ tx.audioFlag
          IN  /\ tx' = [tx EXCEPT !.audio_gate_val = v, !.audioFlag = flag]
              /\ pc' = IF flag THEN "audio_pack" ELSE "recv"
    /\ UNCHANGED hist

AudioPack ==
    /\ pc = "audio_pack"
    /\ tx' = stopListening(triage_data(pack_sent_msg(
                 [tx EXCEPT !.gateNum = 1])))
    /\ pc' = "audio_write"
    /\ UNCHANGED hist

AudioWrite ==
    /\ pc = "audio_write"
    /\ tx' = backToListening(tx)
    /\ pc' = "audio_clear"
    /\ UNCHANGED hist

\* delay(1000); gateNum = false; audioFlag = false;
\* SentMessage[0].audio_gate = gateNum;
AudioClear ==
    /\ pc = "audio_clear"
    /\ tx' = [tx EXCEPT !.gateNum = 0, !.audioFlag = FALSE,
                        !.SentMessage.audio_gate = 0]
    /\ pc' = "recv"
    /\ UNCHANGED hist

(***************************************************************************)
(* receive_msg()                                                           *)
(***************************************************************************)
\* if (radio.available()) is false: nothing was received.
NoMessage ==
    /\ pc = "recv"
    /\ pc' = "serial"
    /\ UNCHANGED <<tx, hist>>

\* The same with receive_msg returning when the guard fails.
ReadPongOf_IgnoresSilently(p) ==
    /\ pc = "recv"
    /\ tx' = get_pong_cmd([tx EXCEPT !.PongMessage = p])
    /\ pc' = IF PongGuard(tx') THEN "switch" ELSE "serial"
    /\ hist' = [active |-> TRUE, applied |-> FALSE, pre |-> Snapshot(tx)]

\* The same entering the switch without the test of the guard.
ReadPongOf_NoGuard(p) ==
    /\ pc = "recv"
    /\ tx' = get_pong_cmd([tx EXCEPT !.PongMessage = p])
    /\ pc' = "switch"
    /\ hist' = [active |-> TRUE, applied |-> FALSE, pre |-> Snapshot(tx)]

\* radio.read(&PongMessage, sizeof(PongMessage)); then get_pong_cmd_RX()
\* as far as its guard: get_pong_cmd() and the test of the guard.
ReadPongOf(p) ==
    /\ pc = "recv"
    /\ tx' = get_pong_cmd([tx EXCEPT !.PongMessage = p])
    /\ pc' = IF PongGuard(tx') THEN "switch" ELSE "setup"
    /\ hist' = [active |-> TRUE, applied |-> FALSE, pre |-> Snapshot(tx)]

\* The ping is any of Pings.
ReadPong == \E p \in Pings : ReadPongOf(p)

\* get_pong_cmd_RX(): the switch on myCmd.
Apply ==
    /\ pc = "switch"
    /\ tx' = PongSwitch(tx)
    /\ hist' = [hist EXCEPT !.applied = TRUE]
    /\ pc' = "setup"

\* receive_msg without its setupTXRadio(radNum,chNum,pwrNum).
Reinit_NoSetup ==
    /\ pc = "setup"
    /\ tx' = [tx EXCEPT !.respFlag = TRUE]
    /\ pc' = "resp_pack"
    /\ UNCHANGED hist

\* setupTXRadio(radNum,chNum,pwrNum); respFlag = true;
Reinit ==
    /\ pc = "setup"
    /\ tx' = [setupTXRadio(tx, tx.radNum, tx.chNum, tx.pwrNum)
                EXCEPT !.respFlag = TRUE]
    /\ pc' = "resp_pack"
    /\ UNCHANGED hist

\* transmit_response_to_RX: pack_sent_msg(); triage_data();
\* radio.stopListening();
RespPack ==
    /\ pc = "resp_pack"
    /\ tx' = stopListening(triage_data(pack_sent_msg(tx)))
    /\ pc' = "resp_write"
    /\ UNCHANGED hist

RespWrite ==
    /\ pc = "resp_write"
    /\ tx' = backToListening(tx)
    /\ pc' = "serial"
    /\ UNCHANGED hist

(***************************************************************************)
(* serialCommOutput(): the local console.                                  *)
(***************************************************************************)
ConsoleRadio(c) ==
    CASE c = "1" -> 1 [] c = "2" -> 2 [] c = "3" -> 3 [] c = "4" -> 4
      [] c = "5" -> 5 [] c = "E" -> 1 [] c = "S" -> 1

ConsoleChannel(c) == IF c = "E" THEN 76 ELSE 81

\* if (Serial.available()) is false.
NoConsole ==
    /\ pc = "serial"
    /\ pc' = "pir"
    /\ hist' = NoHist
    /\ UNCHANGED tx

Console ==
    /\ pc = "serial"
    /\ \E c \in ConsoleChars :
          LET n == IF c = "R"
                   THEN tx
                   ELSE setupTXRadio(tx, ConsoleRadio(c), ConsoleChannel(c),
                                     PA_MIN)
          IN  tx' = [n EXCEPT !.radio.listening = TRUE]
    /\ pc' = "pir"
    /\ hist' = NoHist

(***************************************************************************)
(* The TX node alone: the pings it reads are any of Pings, what it writes  *)
(* is heard by nobody.                                                     *)
(***************************************************************************)
Next ==
    \/ (PollPir /\ UNCHANGED <<rx, air, peer, stored>>)
    \/ (PirPack /\ UNCHANGED <<rx, air, peer, stored>>)
    \/ (PirWrite /\ UNCHANGED <<rx, air, peer, stored>>)
    \/ (PirClear /\ UNCHANGED <<rx, air, peer, stored>>)
    \/ (PollAudio /\ UNCHANGED <<rx, air, peer, stored>>)
    \/ (AudioPack /\ UNCHANGED <<rx, air, peer, stored>>)
    \/ (AudioWrite /\ UNCHANGED <<rx, air, peer, stored>>)
    \/ (AudioClear /\ UNCHANGED <<rx, air, peer, stored>>)
    \/ (NoMessage /\ UNCHANGED <<rx, air, peer, stored>>)
    \/ (ReadPong /\ UNCHANGED <<rx, air, peer, stored>>)
    \/ (Apply /\ UNCHANGED <<rx, air, peer, stored>>)
    \/ (Reinit /\ UNCHANGED <<rx, air, peer, stored>>)
    \/ (RespPack /\ UNCHANGED <<rx, air, peer, stored>>)
    \/ (RespWrite /\ UNCHANGED <<rx, air, peer, stored>>)
    \/ (NoConsole /\ UNCHANGED <<rx, air, peer, stored>>)
    \/ (Console /\ UNCHANGED <<rx, air, peer, stored>>)

Spec == Init /\ [][Next]_vars

(***************************************************************************)
(* The node alone, the loop never halting: loop() is called again without  *)
(* end and none of its statements blocks (radio.write returns after its    *)
(* retries, the delays are finite), so the node always takes its next      *)
(* step.  The pings are of every command, to channel 0 or 81 and to radio  *)
(* 1, 2 or 5, asking for radio 2 at the highest power.                     *)
(***************************************************************************)
FairPings ==
    { pingCmd(c, ch, 2, PA_MAX, t, ALM_NONE, DNG_NONE) :
        c \in 0..MaxCmd, ch \in PingChannels, t \in {1, 2, 5} }

FairReadPong == \E p \in FairPings : ReadPongOf(p)

NextFair ==
    \/ (PollPir /\ UNCHANGED <<rx, air, peer, stored>>)
    \/ (PirPack /\ UNCHANGED <<rx, air, peer, stored>>)
    \/ (PirWrite /\ UNCHANGED <<rx, air, peer, stored>>)
    \/ (PirClear /\ UNCHANGED <<rx, air, peer, stored>>)
    \/ (PollAudio /\ UNCHANGED <<rx, air, peer, stored>>)
    \/ (AudioPack /\ UNCHANGED <<rx, air, peer, stored>>)
    \/ (AudioWrite /\ UNCHANGED <<rx, air, peer, stored>>)
    \/ (AudioClear /\ UNCHANGED <<rx, air, peer, stored>>)
    \/ (NoMessage /\ UNCHANGED <<rx, air, peer, stored>>)
    \/ (FairReadPong /\ UNCHANGED <<rx, air, peer, stored>>)
    \/ (Apply /\ UNCHANGED <<rx, air, peer, stored>>)
    \/ (Reinit /\ UNCHANGED <<rx, air, peer, stored>>)
    \/ (RespPack /\ UNCHANGED <<rx, air, peer, stored>>)
    \/ (RespWrite /\ UNCHANGED <<rx, air, peer, stored>>)
    \/ (NoConsole /\ UNCHANGED <<rx, air, peer, stored>>)

SpecFair == Init /\ [][NextFair]_vars /\ WF_vars(NextFair)

(***************************************************************************)
(* The Master's loop(): receive_data(); serialCommOutput();                *)
(***************************************************************************)
\* receive_data: if (radio.available()) is false.
NoData ==
    /\ rx.at = "receive"
    /\ air.toMaster = <<>>
    /\ rx' = [rx EXCEPT !.at = "serial"]
    /\ UNCHANGED <<tx, pc, hist, air, peer, stored>>

\* void receive_data() when radio.available():
\* radio.read(&ReceivedMessage, sizeof(ReceivedMessage)); parseRcvMsg();
\* receive_rm(rad_msg);
receive_data(m, w) ==
    LET p == parseRcvMsg([m EXCEPT !.ReceivedMessage = read_ReceivedMessage(w)])
    IN  receive_rm(p, p.rad_msg)

ReceiveData ==
    /\ rx.at = "receive"
    /\ air.toMaster # <<>>
    /\ rx' = [receive_data(rx, Head(air.toMaster).payload)
                EXCEPT !.read = TRUE, !.at = "serial"]
    /\ air' = [air EXCEPT !.toMaster = Tail(@)]
    /\ UNCHANGED <<tx, pc, hist, peer, stored>>

\* The characters typed at the Master's console, and the arguments of the
\* send_ping_cmd each of them makes.
MasterChars == {"K", "x"}

ConsolePing(c) ==
    CASE c = "K" -> pingCmd(nada, 81, 5, PA_MIN, 5, ALM_NONE, DNG_NONE)
      [] c = "x" -> pingCmd(pa_chg, 81, 2, PA_MAX, 2, ALM_NONE, DNG_NONE)

\* serialCommOutput: if (Serial.available()) is false.
MasterNoConsole ==
    /\ rx.at = "serial"
    /\ rx' = [rx EXCEPT !.at = "receive", !.read = FALSE, !.serial = <<>>]
    /\ UNCHANGED <<tx, pc, hist, air, peer, stored>>

\* The depth of the RX FIFO of a transceiver.
FifoDepth == 1

\* The node hears what the Master writes on addresses[0].
NodeHears ==
    /\ tx.radio.listening
    /\ tx.radio.rpipe = 0
    /\ tx.radio.channel = rx.radio.channel
    /\ Len(air.toTX) < FifoDepth

\* serialCommOutput: a character that sends a ping.
MasterConsole ==
    /\ rx.at = "serial"
    /\ \E c \in MasterChars :
          LET p == ConsolePing(c)
              m == send_ping_cmd(rx, p.my_cmd, p.ch_cmd, p.r_cmd, p.pa_cmd,
                                 p.tar_cmd)
          IN  /\ rx' = [m EXCEPT !.at = "receive", !.read = FALSE,
                                 !.serial = <<>>]
              /\ air' = IF NodeHears
                        THEN [air EXCEPT !.toTX = Append(@,
                                 [payload |-> write_PingMessage(m.PingMessage),
                                  wrote |-> m.PingMessage])]
                        ELSE air
    /\ UNCHANGED <<tx, pc, hist, peer, stored>>

(***************************************************************************)
(* The node and the Master together.                                       *)
(***************************************************************************)
\* The Master hears what the node writes on addresses[radNum].
MasterHears ==
    /\ rx.radio.listening
    /\ tx.radio.wpipe \in rx.radio.rpipes
    /\ tx.radio.channel = rx.radio.channel
    /\ Len(air.toMaster) < FifoDepth

\* radio.write(&SentMessage, sizeof(SentMessage)) of the node.
Deliver ==
    /\ air' = IF MasterHears
              THEN [air EXCEPT !.toMaster = Append(@,
                       [payload |-> write_SentMessage(tx.SentMessage),
                        wrote |-> tx.SentMessage])]
              ELSE air
    /\ UNCHANGED <<rx, peer, stored>>

\* receive_msg of the node: radio.available() is whether a payload waits.
LinkNoMessage ==
    /\ air.toTX = <<>>
    /\ NoMessage
    /\ UNCHANGED <<rx, air, peer, stored>>

LinkReadPong ==
    /\ air.toTX # <<>>
    /\ ReadPongOf(read_PongMessage(Head(air.toTX).payload))
    /\ air' = [air EXCEPT !.toTX = Tail(@)]
    /\ UNCHANGED <<rx, peer, stored>>

MasterNext ==
    \/ NoData \/ ReceiveData \/ MasterNoConsole

(***************************************************************************)
(* The classifiers: a node whose sensor variables hold any of the readings *)
(* below sends one reply, the Master receives it.                          *)
(***************************************************************************)
Humidities == {9, 10, 50, 84, 85}

TempsC == {19, 20, 25, 39, 40, 41, 99, 100, 101, 105}

Co2s == {-1, 0, 1, 399, 400, 500, 1600, 1601, 1700, 1799, 1800, 1999, 2000,
         2999, 3000, 3200}

Sensing(n, co2, h, c, pir, gate) ==
    [n EXCEPT !.co2Num = co2, !.hNum = h, !.tNum = c, !.pirNum = pir,
              !.gateNum = gate]

InitTriage ==
    /\ \E co2 \in Co2s, h \in Humidities, c \in TempsC,
          pir \in {0, 1}, gate \in {0, 1} :
          tx = [Sensing(setup, co2, h, c, pir, gate) EXCEPT !.respFlag = TRUE]
    /\ pc = "resp_pack"
    /\ hist = NoHist
    /\ rx = masterSetup
    /\ air = NoAir
    /\ peer = setup
    /\ stored = NoneStored

NextTriage ==
    \/ (RespPack /\ UNCHANGED <<rx, air, peer, stored>>)
    \/ (RespWrite /\ Deliver)
    \/ MasterNext

SpecTriage == InitTriage /\ [][NextTriage]_vars

(***************************************************************************)
(* The interrupt service routines.  v is what digitalRead returns.  An     *)
(* interrupt between the digitalRead of loop() and the test of the value   *)
(* read leaves in the variable a value the pin had, which is what PollPir  *)
(* and PollAudio draw.                                                     *)
(***************************************************************************)
\* pirISR that also latches intruderFlag.
pirISR_Latches(n, v) ==
    [n EXCEPT !.pir_pin_val = v, !.intruderFlag = (v = 1) \/ @]

\* void audioISR(): audio_gate_val = digitalRead(PIN_GATE_IN);
audioISR(n, v) == [n EXCEPT !.audio_gate_val = v]

\* void pirISR(): pir_pin_val = digitalRead(PIR_PIN);
pirISR(n, v) == [n EXCEPT !.pir_pin_val = v]

\* void msgISR() of the node: msg_pin_val = digitalRead(MSG_PIN);
msgISR(n, v) == [n EXCEPT !.msg_pin_val = v]

\* void msgISR() of the Master: msg_pin_val = digitalRead(MSG_PIN);
msgISR_Master(m, v) == [m EXCEPT !.msg_pin_val = v]

\* The handlers run between any two statement groups of loop().
AudioInterrupt ==
    /\ \E v \in {0, 1} : tx' = audioISR(tx, v)
    /\ UNCHANGED <<pc, hist, rx, air, peer, stored>>

PirInterrupt ==
    /\ \E v \in {0, 1} : tx' = pirISR(tx, v)
    /\ UNCHANGED <<pc, hist, rx, air, peer, stored>>

MsgInterrupt ==
    /\ \E v \in {0, 1} : tx' = msgISR(tx, v)
    /\ UNCHANGED <<pc, hist, rx, air, peer, stored>>

MasterMsgInterrupt ==
    /\ \E v \in {0, 1} : rx' = msgISR_Master(rx, v)
    /\ UNCHANGED <<tx, pc, hist, air, peer, stored>>

(***************************************************************************)
(* The link: a node set to any radio number 1..5 on channel 81, its sensor *)
(* variables holding one of two readings, and the Master.                  *)
(***************************************************************************)
LinkReadings ==
    { [co2 |-> 500, h |-> 50, c |-> 25],
      [co2 |-> -1, h |-> 50, c |-> 100] }

InitLink ==
    /\ \E s \in LinkReadings, rn \in 1..5 :
          tx = setupTXRadio(Sensing(setup, s.co2, s.h, s.c, 0, 0),
                            rn, 81, PA_MIN)
    /\ pc = "pir"
    /\ hist = NoHist
    /\ rx = masterSetup
    /\ air = NoAir
    /\ peer = setup
    /\ stored = NoneStored

NextLink ==
    \/ (PollPir /\ UNCHANGED <<rx, air, peer, stored>>)
    \/ (PirPack /\ UNCHANGED <<rx, air, peer, stored>>)
    \/ (PirWrite /\ Deliver)
    \/ (PirClear /\ UNCHANGED <<rx, air, peer, stored>>)
    \/ (PollAudio /\ UNCHANGED <<rx, air, peer, stored>>)
    \/ (AudioPack /\ UNCHANGED <<rx, air, peer, stored>>)
    \/ (AudioWrite /\ Deliver)
    \/ (AudioClear /\ UNCHANGED <<rx, air, peer, stored>>)
    \/ LinkNoMessage
    \/ LinkReadPong
    \/ (Apply /\ UNCHANGED <<rx, air, peer, stored>>)
    \/ (Reinit /\ UNCHANGED <<rx, air, peer, stored>>)
    \/ (RespPack /\ UNCHANGED <<rx, air, peer, stored>>)
    \/ (RespWrite /\ Deliver)
    \/ (NoConsole /\ UNCHANGED <<rx, air, peer, stored>>)
    \/ MasterNext
    \/ MasterConsole

SpecLink == InitLink /\ [][NextLink]_vars

(***************************************************************************)
(* The link with the interrupts: the node as setup() leaves it and the     *)
(* Master, the handlers running at any moment.                             *)
(***************************************************************************)
InitIrq ==
    /\ tx = setup
    /\ pc = "pir"
    /\ hist = NoHist
    /\ rx = masterSetup
    /\ air = NoAir
    /\ peer = setup
    /\ stored = NoneStored

NextIrq ==
    \/ NextLink
    \/ AudioInterrupt
    \/ PirInterrupt
    \/ MsgInterrupt
    \/ MasterMsgInterrupt

SpecIrq == InitIrq /\ [][NextIrq]_vars

(***************************************************************************)
(* Two nodes and the Master.  The first node is tx, followed statement     *)
(* group by statement group; the second is peer, whose handlers are taken  *)
(* whole: the nodes share nothing but the Master's pings.                  *)
(***************************************************************************)
\* void receive_msg() on a ping p: radio.read(&PongMessage, ...);
\* get_pong_cmd_RX(); setupTXRadio(radNum,chNum,pwrNum); respFlag = true;
\* transmit_response_to_RX(respFlag);
receive_msg(n, p) ==
    LET g == get_pong_cmd([n EXCEPT !.PongMessage = p])
        s == IF PongGuard(g) THEN PongSwitch(g) ELSE g
        r == [setupTXRadio(s, s.radNum, s.chNum, s.pwrNum)
                EXCEPT !.respFlag = TRUE]
    IN  backToListening(stopListening(triage_data(pack_sent_msg(r))))

\* void transmit_pir_state(bool pirFlag) with the flag set: the record as
\* written, and the node after the function.
transmit_pir_state(n) ==
    LET w == stopListening(triage_data(pack_sent_msg(
                 [n EXCEPT !.pirNum = 1, !.intruderFlag = TRUE])))
    IN  [wrote |-> w.SentMessage,
         after |-> [backToListening(w) EXCEPT !.pirNum = 0,
                                              !.intruderFlag = FALSE,
                                              !.SentMessage.pir_state = 0]]

\* The Master hears what a node n writes on addresses[radNum].
MasterHearsNode(n, a) ==
    /\ rx.radio.listening
    /\ n.radio.wpipe \in rx.radio.rpipes
    /\ n.radio.channel = rx.radio.channel
    /\ Len(a.toMaster) < FifoDepth

\* radio.write(&SentMessage, sizeof(SentMessage)) of the second node.
DeliverFrom(n, r, a) ==
    IF MasterHearsNode(n, a)
    THEN [a EXCEPT !.toMaster = Append(@, [payload |-> write_SentMessage(r),
                                           wrote |-> r])]
    ELSE a

\* loop() of the second node with its PIR pin high: the motion record.
PeerMotion ==
    /\ ~peer.intruderFlag
    /\ LET t == transmit_pir_state(peer)
       IN  /\ peer' = [t.after EXCEPT !.pir_pin_val = 1]
           /\ air' = DeliverFrom(peer, t.wrote, air)
    /\ UNCHANGED <<tx, pc, hist, rx, stored>>

\* serialCommOutput of the Master: a character that sends a ping, heard by
\* every node that listens on the Master's channel; the second node runs
\* its receive_msg on it and replies.
PairConsole ==
    /\ rx.at = "serial"
    /\ \E c \in MasterChars :
          LET p == ConsolePing(c)
              m == send_ping_cmd(rx, p.my_cmd, p.ch_cmd, p.r_cmd, p.pa_cmd,
                                 p.tar_cmd)
              w == write_PingMessage(m.PingMessage)
              a == IF NodeHears
                   THEN [air EXCEPT !.toTX = Append(@,
                            [payload |-> w, wrote |-> m.PingMessage])]
                   ELSE air
              hears == /\ peer.radio.listening
                       /\ peer.radio.rpipe = 0
                       /\ peer.radio.channel = rx.radio.channel
              n == receive_msg(peer, read_PongMessage(w))
          IN  /\ rx' = [m EXCEPT !.at = "receive", !.read = FALSE,
                                 !.serial = <<>>]
              /\ peer' = IF hears THEN n ELSE peer
              /\ air' = IF hears THEN DeliverFrom(n, n.SentMessage, a) ELSE a
    /\ UNCHANGED <<tx, pc, hist, stored>>

\* The radio numbers the two nodes are set to at the start: the target of
\* the 'K' ping and the target of the 'x' ping, or two that no ping targets.
PairRadios == { <<5, 2>>, <<3, 4>> }

InitPair ==
    /\ \E r \in PairRadios :
          /\ tx = setupTXRadio(setup, r[1], 81, PA_MIN)
          /\ peer = setupTXRadio(setup, r[2], 81, PA_MIN)
    /\ stored = NoneStored
    /\ pc = "pir"
    /\ hist = NoHist
    /\ rx = masterSetup
    /\ air = NoAir

NextPair ==
    \/ (PollPir /\ UNCHANGED <<rx, air, peer, stored>>)
    \/ (PirPack /\ UNCHANGED <<rx, air, peer, stored>>)
    \/ (PirWrite /\ Deliver)
    \/ (PirClear /\ UNCHANGED <<rx, air, peer, stored>>)
    \/ (PollAudio /\ UNCHANGED <<rx, air, peer, stored>>)
    \/ (AudioPack /\ UNCHANGED <<rx, air, peer, stored>>)
    \/ (AudioWrite /\ Deliver)
    \/ (AudioClear /\ UNCHANGED <<rx, air, peer, stored>>)
    \/ LinkNoMessage
    \/ LinkReadPong
    \/ (Apply /\ UNCHANGED <<rx, air, peer, stored>>)
    \/ (Reinit /\ UNCHANGED <<rx, air, peer, stored>>)
    \/ (RespPack /\ UNCHANGED <<rx, air, peer, stored>>)
    \/ (RespWrite /\ Deliver)
    \/ (NoConsole /\ UNCHANGED <<rx, air, peer, stored>>)
    \/ MasterNext
    \/ PairConsole
    \/ PeerMotion

SpecPair == InitPair /\ [][NextPair]_vars


(***************************************************************************)
(*                           The claims                                    *)
(***************************************************************************)
\* The record being processed, and the states in which receive_msg has
\* finished processing it (the loop is about to call serialCommOutput).
Rec == tx.PongMessage

Processed == hist.active /\ pc = "serial"

\* The switch of get_pong_cmd_RX ran for the record, on command cmd.
Ran(cmd) == hist.active /\ hist.applied /\ tx.myCmd = cmd

\* C1: a case of the switch in get_pong_cmd_RX is executed only from a
\* state in which the record's channel equals the node's chNum and the
\* record's target equals the node's radNum; in every other state no case
\* runs.
C1_GuardOnlyIf ==
    [][ (hist'.applied /\ ~hist.applied)
          => /\ tx.PongMessage.ch_cmd = tx.chNum
             /\ tx.PongMessage.tar_cmd = tx.radNum ]_vars

\* C1: a record passed the guard and a case of the switch ran for it.
C1_Witness == hist.active /\ hist.applied /\ pc = "setup"

\* C2: a record whose channel and target equal the channel and radio
\* number the node was running on when the record arrived is applied, and
\* a record whose target differs from that radio number is ignored.
C2_AppliedIffAddressed ==
    Processed =>
        /\ (Rec.ch_cmd = hist.pre.id.chNum /\ Rec.tar_cmd = hist.pre.id.radNum)
              => hist.applied
        /\ (Rec.tar_cmd # hist.pre.id.radNum) => ~hist.applied

\* C3: a record that fails the guard leaves the node's radNum, chNum and
\* pwrNum and the radio's channel and writing pipe as they were when it
\* arrived.
C3_IgnoredLeavesNode ==
    (Processed /\ ~hist.applied) =>
        /\ Identity(tx) = hist.pre.id
        /\ tx.radio.channel = hist.pre.radio.channel
        /\ tx.radio.wpipe = hist.pre.radio.wpipe

\* C4, as claimed: after a guard-matching rad_chg record has been
\* processed, radNum equals the record's r_cmd, whatever its value, and
\* the writing pipe is addresses[r_cmd].
C4_Original ==
    (Processed /\ Ran(rad_chg)) =>
        /\ tx.radNum = Rec.r_cmd
        /\ tx.radio.wpipe = Rec.r_cmd

\* C4, amended: after a guard-matching rad_chg record has been processed,
\* radNum equals the record's r_cmd when that is one of 1..5 and 1
\* otherwise, and the writing pipe is addresses[radNum].
C4_Amended ==
    (Processed /\ Ran(rad_chg)) =>
        /\ tx.radNum = (IF Rec.r_cmd \in 1..5 THEN Rec.r_cmd ELSE 1)
        /\ tx.radio.wpipe = tx.radNum

\* C4: a rad_chg record was applied and gave the node another radio number.
C4_Witness ==
    /\ Processed /\ Ran(rad_chg)
    /\ Rec.r_cmd = 2
    /\ hist.pre.id.radNum # 2
    /\ tx.radNum = 2

\* C5: after a guard-matching chan_chg record has been processed, chNum
\* and the radio's channel equal the record's ch_cmd.
C5_ChangeChannel ==
    (Processed /\ Ran(chan_chg)) =>
        /\ tx.chNum = Rec.ch_cmd
        /\ tx.radio.channel = Rec.ch_cmd

\* C5: a chan_chg record for channel 81 was applied.
C5_Witness == Processed /\ Ran(chan_chg) /\ Rec.ch_cmd = 81

\* C6: after a guard-matching pa_chg record has been processed, pwrNum
\* equals the record's pa_cmd, and chNum and radNum are what they were
\* when the record arrived.
C6_ChangePowerOnly ==
    (Processed /\ Ran(pa_chg)) =>
        /\ tx.pwrNum = Rec.pa_cmd
        /\ tx.chNum = hist.pre.id.chNum
        /\ tx.radNum = hist.pre.id.radNum

\* C7, as claimed: after a guard-matching all_chg record has been
\* processed, (chNum, radNum, pwrNum) is the record's
\* (ch_cmd, r_cmd, pa_cmd).
C7_Original ==
    (Processed /\ Ran(all_chg)) =>
        <<tx.chNum, tx.radNum, tx.pwrNum>>
            = <<Rec.ch_cmd, Rec.r_cmd, Rec.pa_cmd>>

\* C7, amended: after a guard-matching all_chg record has been processed,
\* chNum and pwrNum are the record's ch_cmd and pa_cmd, and radNum is the
\* record's r_cmd when that is one of 1..5 and 1 otherwise.
C7_Amended ==
    (Processed /\ Ran(all_chg)) =>
        <<tx.chNum, tx.radNum, tx.pwrNum>>
            = <<Rec.ch_cmd, IF Rec.r_cmd \in 1..5 THEN Rec.r_cmd ELSE 1,
                Rec.pa_cmd>>

\* C7: an all_chg record was applied and changed radio number and power.
C7_Witness ==
    /\ Processed /\ Ran(all_chg)
    /\ Rec.r_cmd = 2 /\ Rec.pa_cmd = PA_MAX
    /\ hist.pre.id.radNum # 2 /\ hist.pre.id.pwrNum # PA_MAX
    /\ tx.radNum = 2 /\ tx.pwrNum = PA_MAX

\* C8: after a guard-matching nada record has been processed, radNum,
\* chNum and pwrNum and the tar_cmd of SentMessage are what they were when
\* the record arrived.
C8_NoneChangesNothing ==
    (Processed /\ Ran(nada)) =>
        /\ Identity(tx) = hist.pre.id
        /\ tx.SentMessage.ping.tar_cmd = hist.pre.tar

\* C9: the record written as the reply to a guard-matching tar_chg or
\* response record carries that record's tar_cmd in its ping.
C9_ReplyCarriesTarget ==
    (pc = "resp_write" /\ (Ran(tar_chg) \/ Ran(response))) =>
        tx.SentMessage.ping.tar_cmd = Rec.tar_cmd

\* C10: at every radio.write the radio's channel, PA level and writing
\* pipe are the node's chNum, pwrNum and addresses[radNum]; in particular
\* at the write of the reply, the first one after a record was processed.
C10_NoStaleWrite ==
    (pc \in {"pir_write", "audio_write", "resp_write"}) =>
        /\ tx.radio.channel = tx.chNum
        /\ tx.radio.pa = tx.pwrNum
        /\ tx.radio.wpipe = tx.radNum

\* C10: the reply is about to be written after a pa_chg record changed the
\* node's power.
C10_Witness ==
    /\ pc = "resp_write" /\ Ran(pa_chg)
    /\ tx.pwrNum # hist.pre.id.pwrNum

\* C11: the record a TX node writes as its reply to a ping it has
\* processed carries my_cmd = response (6) in its embedded ping.
C11_ReplyIsAcknowledge ==
    (pc = "resp_write" /\ hist.active) =>
        tx.SentMessage.ping.my_cmd = response


(***************************************************************************)
(* The classifier claims (SpecTriage).                                     *)
(***************************************************************************)
\* The record the node has classified and written (SpecTriage: it sends
\* one), and the record the Master has read and classified.
Sent == tx.SentMessage

Written == pc \in {"resp_write", "serial"}

Got == rx.ReceivedMessage

Classified == rx.read

\* The threshold tests of triage_data and of triage_msg as a table: whether
\* the test fires on m, its alarm and its danger.
TestsTX(m) ==
    { <<m.h_val < 10, HUM_LOW, DNG_NONE>>,
      <<m.h_val >= 85, HUM_HIGH, DNG_LOW>>,
      <<m.c_val < 20, TEMP_LOW, DNG_LOW>>,
      <<m.c_val >= 40 /\ m.c_val < 100, TEMP_HIGH, DNG_HIGH>>,
      <<m.c_val >= 100, TEMP_FIRE, DNG_MAX>>,
      <<m.co2_val <= 0, CO2_LOW, DNG_NONE>>,
      <<m.co2_val >= 400 /\ m.co2_val <= 1600, CO2_GOOD, DNG_NONE>>,
      <<m.co2_val >= 1800 /\ m.co2_val < 3000, CO2_HIGH, DNG_HIGH>>,
      <<m.co2_val >= 3000, CO2_DNG, DNG_MAX>>,
      <<m.audio_gate = 1, LOUDNOISE, DNG_MED>>,
      <<m.pir_state = 1, INTRUDER, DNG_HIGH>> }

TestsMaster(m) ==
    { <<m.h_val < 10, HUM_LOW, DNG_NONE>>,
      <<m.h_val >= 85, HUM_HIGH, DNG_LOW>>,
      <<m.c_val < 20, TEMP_LOW, DNG_LOW>>,
      <<m.c_val > 40, TEMP_HIGH, DNG_HIGH>>,
      <<m.c_val > 100, TEMP_FIRE, DNG_MAX>>,
      <<m.co2_val <= 0, CO2_LOW, DNG_NONE>>,
      <<m.co2_val >= 400 /\ m.co2_val < 2000, CO2_GOOD, DNG_NONE>>,
      <<m.co2_val >= 2000 /\ m.co2_val < 3000, CO2_HIGH, DNG_HIGH>>,
      <<m.co2_val >= 3000, CO2_DNG, DNG_MAX>>,
      <<m.pir_state = 1, INTRUDER, DNG_HIGH>>,
      <<m.audio_gate = 1, LOUDNOISE, DNG_MED>> }

\* The greatest of a set of numbers, 0 (ALM_NONE, DNG_NONE) when it is empty.
Highest(S) == IF S = {} THEN 0 ELSE CHOOSE x \in S : \A y \in S : y <= x

HighestAlarm(tests) == Highest({ t[2] : t \in { u \in tests : u[1] } })

HighestDanger(tests) == Highest({ t[3] : t \in { u \in tests : u[1] } })

\* C12: the pair the node's triage_data puts in the record it writes, and
\* the pair the Master's triage_msg computes for the record it has read,
\* are the highest alarm among the tests that fire and the highest danger
\* among the tests that fire, each taken on its own, and (ALM_NONE,
\* DNG_NONE) when no test fires.
C12_HighestOfFired ==
    /\ Written =>
          /\ Sent.ping.alm_cmd = HighestAlarm(TestsTX(Sent))
          /\ Sent.ping.dng_cmd = HighestDanger(TestsTX(Sent))
    /\ Classified =>
          /\ rx.alm_msg = HighestAlarm(TestsMaster(Got))
          /\ rx.dng_msg = HighestDanger(TestsMaster(Got))

\* C12: the Master has classified a record in which CO2_GOOD (danger none)
\* and TEMP_HIGH (danger high) fire: the alarm comes from the one, the
\* danger from the other, at the node and at the Master.
C12_Witness ==
    /\ Classified /\ Written
    /\ Got.co2_val = 500 /\ Got.c_val = 41
    /\ rx.alm_msg = CO2_GOOD /\ rx.dng_msg = DNG_HIGH
    /\ Sent.ping.alm_cmd = CO2_GOOD /\ Sent.ping.dng_cmd = DNG_HIGH


\* No test on the temperature, the CO2 level, the motion or the audio gate
\* of m fires, at the node or at the Master.
OnlyHumidity(m) ==
    /\ m.c_val >= 20 /\ m.c_val < 40
    /\ m.co2_val > 0 /\ m.co2_val < 400
    /\ m.pir_state = 0 /\ m.audio_gate = 0

\* The alarm alm is HUM_LOW exactly when h < 10, HUM_HIGH exactly when
\* h >= 85, and ALM_NONE exactly when 10 <= h < 85.
HumidityAlarm(h, alm) ==
    /\ (alm = HUM_LOW) <=> (h < 10)
    /\ (alm = HUM_HIGH) <=> (h >= 85)
    /\ (alm = ALM_NONE) <=> (h >= 10 /\ h < 85)

\* C13: for a record in which no other field fires a test, the node's
\* classifier and the Master's classifier give HUM_LOW exactly when the
\* humidity is below 10, HUM_HIGH exactly when it is 85 or more, and no
\* alarm for a humidity from 10 to 84.
C13_HumidityThresholds ==
    /\ (Written /\ OnlyHumidity(Sent)) =>
          HumidityAlarm(Sent.h_val, Sent.ping.alm_cmd)
    /\ (Classified /\ OnlyHumidity(Got)) =>
          HumidityAlarm(Got.h_val, rx.alm_msg)

\* C13: the Master has classified a record whose humidity is exactly 85
\* and in which nothing else fires: HUM_HIGH at the node and at the Master.
C13_Witness ==
    /\ Classified /\ OnlyHumidity(Got)
    /\ Got.h_val = 85
    /\ rx.alm_msg = HUM_HIGH /\ Got = [Sent EXCEPT !.ping.alm_cmd = HUM_HIGH]


\* No test on the humidity, the CO2 level, the motion or the audio gate of
\* m fires.
OnlyTemperature(m) ==
    /\ m.h_val >= 10 /\ m.h_val < 85
    /\ m.co2_val > 0 /\ m.co2_val < 400
    /\ m.pir_state = 0 /\ m.audio_gate = 0

\* C14: for a record in which no other field fires a test, the node's
\* classifier gives (TEMP_LOW, DNG_LOW) exactly when tempC < 20,
\* (TEMP_HIGH, DNG_HIGH) exactly when 40 <= tempC < 100, (TEMP_FIRE,
\* DNG_MAX) exactly when tempC >= 100 and no alarm exactly when
\* 20 <= tempC < 40.
C14_TemperatureThresholdsTX ==
    (Written /\ OnlyTemperature(Sent)) =>
        LET t == Sent.c_val
            a == <<Sent.ping.alm_cmd, Sent.ping.dng_cmd>>
        IN  /\ (a = <<TEMP_LOW, DNG_LOW>>) <=> (t < 20)
            /\ (a = <<TEMP_HIGH, DNG_HIGH>>) <=> (t >= 40 /\ t < 100)
            /\ (a = <<TEMP_FIRE, DNG_MAX>>) <=> (t >= 100)
            /\ (a = <<ALM_NONE, DNG_NONE>>) <=> (t >= 20 /\ t < 40)

\* C14: the node has written a record with tempC exactly 40 in which
\* nothing else fires: (TEMP_HIGH, DNG_HIGH).
C14_Witness ==
    /\ Written /\ OnlyTemperature(Sent)
    /\ Sent.c_val = 40
    /\ Sent.ping.alm_cmd = TEMP_HIGH /\ Sent.ping.dng_cmd = DNG_HIGH


\* No test on the humidity, the temperature, the motion or the audio gate
\* of m fires, at the node or at the Master.
OnlyCo2(m) ==
    /\ m.h_val >= 10 /\ m.h_val < 85
    /\ m.c_val >= 20 /\ m.c_val < 40
    /\ m.pir_state = 0 /\ m.audio_gate = 0

\* C15: for a record in which no other field fires a test, the node gives
\* CO2_GOOD exactly for 400 <= co2 <= 1600 and CO2_HIGH exactly for
\* 1800 <= co2 < 3000 (no alarm for 1601..1799), the Master gives CO2_GOOD
\* exactly for 400 <= co2 < 2000 and CO2_HIGH exactly for
\* 2000 <= co2 < 3000; both give CO2_LOW exactly for co2 <= 0 and CO2_DNG
\* exactly for co2 >= 3000.
C15_Co2Bands ==
    /\ (Written /\ OnlyCo2(Sent)) =>
          LET c == Sent.co2_val
              a == Sent.ping.alm_cmd
          IN  /\ (a = CO2_GOOD) <=> (c >= 400 /\ c <= 1600)
              /\ (a = CO2_HIGH) <=> (c >= 1800 /\ c < 3000)
              /\ (c >= 1601 /\ c <= 1799) => a = ALM_NONE
              /\ (a = CO2_LOW) <=> (c <= 0)
              /\ (a = CO2_DNG) <=> (c >= 3000)
    /\ (Classified /\ OnlyCo2(Got)) =>
          LET c == Got.co2_val
              a == rx.alm_msg
          IN  /\ (a = CO2_GOOD) <=> (c >= 400 /\ c < 2000)
              /\ (a = CO2_HIGH) <=> (c >= 2000 /\ c < 3000)
              /\ (a = CO2_LOW) <=> (c <= 0)
              /\ (a = CO2_DNG) <=> (c >= 3000)

\* C15: the Master has classified a record with co2 = 1700 in which
\* nothing else fires: CO2_GOOD at the Master, no alarm at the node.
C15_Witness ==
    /\ Classified /\ Written /\ OnlyCo2(Got)
    /\ Got.co2_val = 1700
    /\ rx.alm_msg = CO2_GOOD
    /\ Sent.ping.alm_cmd = ALM_NONE


\* C16: for every record whose co2 is outside 1601..1999, whatever its
\* humidity, tempC, motion and audio, the pair the Master's triage_msg
\* computes is the pair the node's triage_data wrote into it.
C16_SameOutsideCo2Band ==
    (Classified /\ ~(Got.co2_val >= 1601 /\ Got.co2_val <= 1999)) =>
        /\ rx.alm_msg = Sent.ping.alm_cmd
        /\ rx.dng_msg = Sent.ping.dng_cmd


\* The records on their way to the Master, as the Master will read them.
OnAir ==
    { read_ReceivedMessage(air.toMaster[i].payload) :
        i \in 1..Len(air.toMaster) }

\* C17: a record the node has classified with tempC >= 100 carries
\* (TEMP_FIRE, DNG_MAX) whatever its co2, humidity, motion and audio, and
\* so does the record on the air.
C17_FireDominates ==
    /\ (Written /\ Sent.c_val >= 100) =>
          /\ Sent.ping.alm_cmd = TEMP_FIRE
          /\ Sent.ping.dng_cmd = DNG_MAX
    /\ \A r \in OnAir :
          r.c_val >= 100 =>
              /\ r.ping.alm_cmd = TEMP_FIRE
              /\ r.ping.dng_cmd = DNG_MAX

\* C17: the record on the air has tempC = 105, co2 = 3200 and motion set,
\* and carries (TEMP_FIRE, DNG_MAX).
C17_Witness ==
    \E r \in OnAir :
        /\ r.c_val = 105 /\ r.co2_val = 3200 /\ r.pir_state = 1
        /\ r.ping.alm_cmd = TEMP_FIRE /\ r.ping.dng_cmd = DNG_MAX


(***************************************************************************)
(* The Master's claims (SpecLink).                                         *)
(***************************************************************************)
\* The Master's receive_data reads a record in this step; the record as
\* the node wrote it.
Receives == rx.at = "receive" /\ air.toMaster # <<>> /\ rx'.read

Incoming == Head(air.toMaster).wrote

\* C18: when the Master reads a record and dispatches it (r_cmd 0..5), the
\* last row of its LCD shows the pair its own classifier gives for the
\* sensor fields of that record, whatever pair the record carried and
\* whatever the LCD showed before; for co2 = 500, humidity = 50,
\* tempC = 25 without motion or audio that is (CO2_GOOD, DNG_NONE).
C18_RendersOwnTriage ==
    [][ (Receives /\ Incoming.ping.r_cmd \in 0..5) =>
            LET t == TriageMaster(Incoming)
            IN  /\ rx'.lcd[4] = <<"Alm:", t.alm, "Dng:", t.dng>>
                /\ ( /\ Incoming.co2_val = 500 /\ Incoming.h_val = 50
                     /\ Incoming.c_val = 25 /\ Incoming.pir_state = 0
                     /\ Incoming.audio_gate = 0 )
                   => rx'.lcd[4] = <<"Alm:", CO2_GOOD, "Dng:", DNG_NONE>>
      ]_vars

\* C18: the Master has read the node's record with tempC = 100 and motion
\* set, which the node wrote with (TEMP_FIRE, DNG_MAX), and shows
\* (INTRUDER, DNG_HIGH).
C18_Witness ==
    /\ rx.read
    /\ Got.c_val = 100 /\ Got.pir_state = 1
    /\ Sent.c_val = 100 /\ Sent.pir_state = 1
    /\ Sent.ping.alm_cmd = TEMP_FIRE /\ Sent.ping.dng_cmd = DNG_MAX
    /\ rx.lcd[4] = <<"Alm:", INTRUDER, "Dng:", DNG_HIGH>>


\* The lines pir_routine and audio_routine print.
MotionRoutineRan == \E i \in 1..Len(rx'.serial) : rx'.serial[i] = "Intruder Detected"

AudioRoutineRan == \E i \in 1..Len(rx'.serial) : rx'.serial[i] = "Audio Detected"

\* C19: when the Master reads a record written by radio 0, 1 or 2, neither
\* pir_routine nor audio_routine runs; when it reads a record written by
\* radio 3, 4 or 5, pir_routine runs exactly if pir_state is set and
\* audio_routine runs exactly if audio_gate is set. No node writes as radio
\* 0: for it, receive_rm(0) runs neither routine whatever pir_msg and
\* gate_msg are.
C19_PerSourceDispatch ==
    [][ /\ Receives =>
            /\ Incoming.radNum \in {0, 1, 2} => rx'.serial = <<>>
            /\ Incoming.radNum \in {3, 4, 5} =>
                  /\ MotionRoutineRan <=> (Incoming.pir_state # 0)
                  /\ AudioRoutineRan <=> (Incoming.audio_gate # 0)
        /\ \A pir \in {0, 1}, gate \in {0, 1} :
              LET m == [rx EXCEPT !.pir_msg = pir, !.gate_msg = gate,
                                  !.serial = <<>>]
              IN  receive_rm(m, 0).serial = <<>>
      ]_vars

\* C19: the Master has read a record of radio 2 with motion set and has
\* run no routine for it.
C19_Witness ==
    /\ rx.read
    /\ Got.radNum = 2 /\ Got.pir_state = 1
    /\ rx.serial = <<>>


\* C20: every payload waiting at the Master reads back, member for member,
\* as the dataStruct the node wrote, and every payload waiting at the node
\* reads back as the pingCmd the Master wrote; the two sketches declare
\* the members in the same order, and the payload of a record has the
\* size of the struct that reads it.
C20_WireRoundTrip ==
    /\ \A i \in 1..Len(air.toMaster) :
          /\ read_ReceivedMessage(air.toMaster[i].payload)
                = air.toMaster[i].wrote
          /\ Len(air.toMaster[i].payload)
                = Len(dataStructMaster) + Len(pingCmdMaster)
    /\ \A i \in 1..Len(air.toTX) :
          /\ read_PongMessage(air.toTX[i].payload) = air.toTX[i].wrote
          /\ Len(air.toTX[i].payload) = Len(pingCmdTX)
    /\ dataStructTX = dataStructMaster
    /\ pingCmdTX = pingCmdMaster

\* C20: a record with a negative co2, different humidity and tempC and
\* motion set waits at the Master while a pa_chg ping waits at the node.
C20_Witness ==
    /\ air.toMaster # <<>> /\ air.toTX # <<>>
    /\ Head(air.toMaster).wrote.co2_val < 0
    /\ Head(air.toMaster).wrote.h_val # Head(air.toMaster).wrote.c_val
    /\ Head(air.toMaster).wrote.pir_state = 1
    /\ Head(air.toTX).wrote.my_cmd = pa_chg


(***************************************************************************)
(* The radio discipline (SpecLink).                                        *)
(***************************************************************************)
\* The node is between the radio.stopListening() and the radio.write of
\* transmit_pir_state, transmit_audio_gate or transmit_response_to_RX.
Sending == pc \in {"pir_write", "audio_write", "resp_write"}

\* C21: the node's radio is out of listen mode exactly between the
\* stopListening and the write of one of its three send operations; the
\* step that leaves that position is the single radio.write of the
\* operation (at most one payload more at the Master) and puts the radio
\* back in listen mode, so it listens whenever receive_msg polls it; the
\* Master's radio listens whenever its loop is between two calls, also
\* after a send_ping_cmd, which puts at most one payload on the air.
C21_HalfDuplex ==
    [][ /\ tx'.radio.listening <=> ~Sending'
        /\ (pc' = "recv") => tx'.radio.listening
        /\ (Sending /\ pc' # pc) =>
              /\ ~Sending' /\ tx'.radio.listening
              /\ Len(air'.toMaster) <= Len(air.toMaster) + 1
        /\ rx'.radio.listening
        /\ (rx'.PingMessage # rx.PingMessage \/ Len(air'.toTX) > Len(air.toTX))
              => Len(air'.toTX) <= Len(air.toTX) + 1
      ]_vars

\* C21: the node polls for received data, listening, after it has written
\* a record, and the Master is back at receive_data, listening, after it
\* has sent a ping.
C21_Witness ==
    /\ pc = "recv" /\ tx.radio.listening
    /\ tx.SentMessage.pir_state = 0 /\ tx.SentMessage.ping.alm_cmd = INTRUDER
    /\ rx.at = "receive" /\ rx.radio.listening
    /\ rx.PingMessage.my_cmd = pa_chg


\* C22: the Master's writing pipe is addresses[0] at every moment, so every
\* ping it writes goes there; whenever the node is about to radio.write,
\* its writing pipe is addresses[radNum] with radNum in 1..5; the node's
\* reading pipe is addresses[0] at every moment.
C22_Addressing ==
    /\ rx.radio.wpipe = 0
    /\ tx.radio.rpipe = 0
    /\ Sending => /\ tx.radio.wpipe = tx.radNum
                  /\ tx.radNum \in 1..5

\* C22: the Master has pinged and the node is about to write its reply on
\* the address of a radio number other than 1.
C22_Witness ==
    /\ pc = "resp_write"
    /\ tx.radio.wpipe = tx.radNum /\ tx.radNum \in 2..5
    /\ rx.PingMessage.my_cmd = pa_chg /\ rx.radio.wpipe = 0


\* C23: the record the node is about to radio.write carries its own radNum
\* as sourceRadio, a number in 1..5; so does every record on its way to the
\* Master and every record the Master has read; myData.radNum of the
\* Master is 0.
C23_SourceRadio ==
    /\ Sending => /\ Sent.radNum \in 1..5
                  /\ Sent.radNum = tx.radNum
    /\ \A i \in 1..Len(air.toMaster) : air.toMaster[i].wrote.radNum \in 1..5
    /\ Classified => Got.radNum \in 1..5
    /\ rx.myData.radNum = 0

\* C23: after a ping of the Master the node's reply, stamped with a radio
\* number of 1..5, has been read by the Master.
C23_Witness ==
    /\ Classified /\ Got.radNum \in 1..5 /\ Got.ping.my_cmd = nada
    /\ rx.PingMessage.my_cmd = pa_chg
    /\ rx.myData.radNum = 0
    /\ pc = "pir_write" /\ Sent.radNum = tx.radNum


\* The alarm and danger a record carries are the classifier's on the
\* record's own sensor fields.
OwnTriage(m) ==
    /\ m.ping.alm_cmd = TriageTX(m).alm
    /\ m.ping.dng_cmd = TriageTX(m).dng

\* C24: the record the node is about to radio.write, and every record on
\* its way to the Master, carries the alarm and danger that triage_data
\* computes from that record's own sensor fields; the ping of the Master,
\* and every ping on its way to the node, carries ALM_NONE and DNG_NONE.
C24_FreshTriage ==
    /\ Sending => OwnTriage(Sent)
    /\ \A i \in 1..Len(air.toMaster) : OwnTriage(air.toMaster[i].wrote)
    /\ rx.PingMessage.alm_cmd = ALM_NONE /\ rx.PingMessage.dng_cmd = DNG_NONE
    /\ \A i \in 1..Len(air.toTX) :
          /\ air.toTX[i].wrote.alm_cmd = ALM_NONE
          /\ air.toTX[i].wrote.dng_cmd = DNG_NONE

\* C24: the node is about to write an audio record classified LOUDNOISE
\* while the globals it was packed from still held the INTRUDER of the
\* motion record written before it, and a ping of the Master is on the air.
C24_Witness ==
    /\ pc = "audio_write"
    /\ Sent.audio_gate = 1 /\ Sent.pir_state = 0
    /\ Sent.ping.alm_cmd = LOUDNOISE /\ Sent.ping.dng_cmd = DNG_MED
    /\ air.toMaster # <<>> /\ Head(air.toMaster).wrote.ping.alm_cmd = INTRUDER
    /\ air.toTX # <<>> /\ Head(air.toTX).wrote.my_cmd = pa_chg


\* The channel and power of the Master's radio and its own radio number.
MasterIdentity(m) ==
    [channel |-> m.radio.channel, pa |-> m.radio.pa,
     chNum |-> m.myData.chNum, radNum |-> m.myData.radNum]

\* The node is inside transmit_pir_state, transmit_audio_gate or
\* transmit_response_to_RX: at pack_sent_msg and triage_data, at the
\* radio.write, or at the clearing of the flag.
InSendCycle ==
    pc \in {"pir_pack", "pir_write", "pir_clear", "audio_pack", "audio_write",
            "audio_clear", "resp_pack", "resp_write"}

\* C25: no step of a send operation of the node (pack_sent_msg and
\* triage_data, the radio.write, the clearing of the flag) changes the
\* node's radNum, chNum, pwrNum or the radio's channel and power; no step
\* of the Master in which it reads, parses, classifies and displays a
\* record, or sends a ping, changes the Master's channel, power or
\* myData.
C25_IdentityFrame ==
    [][ /\ InSendCycle =>
              /\ Identity(tx') = Identity(tx)
              /\ tx'.radio.channel = tx.radio.channel
              /\ tx'.radio.pa = tx.radio.pa
        /\ MasterIdentity(rx') = MasterIdentity(rx)
      ]_vars

\* C25: the node has written a record as a radio other than 5 on channel
\* 81 at maximum power, and the Master has read and classified a record and
\* sent a ping, still on channel 81 at minimum power as radio 0.
C25_Witness ==
    /\ pc = "pir_clear" /\ tx.radNum # 5 /\ tx.pwrNum = PA_MAX
    /\ tx.radio.channel = 81
    /\ Classified /\ rx.PingMessage.my_cmd = pa_chg
    /\ MasterIdentity(rx) = [channel |-> 81, pa |-> PA_MIN, chNum |-> 81,
                             radNum |-> 0]


(***************************************************************************)
(* The classifiers as functions.                                           *)
(***************************************************************************)
AlarmTypes == ALM_NONE..TEMP_FIRE

DngLevels == DNG_NONE..DNG_MAX

\* A record with nothing but the five sensor fields of m.
SensorFields(m) ==
    [ZeroData EXCEPT !.h_val = m.h_val, !.c_val = m.c_val,
                     !.co2_val = m.co2_val, !.pir_state = m.pir_state,
                     !.audio_gate = m.audio_gate]

\* m with other alarm and danger fields.
WithAlarm(m, a, d) == [m EXCEPT !.ping.alm_cmd = a, !.ping.dng_cmd = d]

\* C26: what triage_data (node) and triage_msg (Master) compute for the
\* record at hand is what they compute for a record that has only its five
\* sensor fields, so two records with equal sensor fields get the same
\* pair; it is the same whatever alarm and danger the record held before
\* and whatever the globals of the previous cycle (almNum, dngNum;
\* alm_msg, dng_msg) hold; and the record after the call is the record
\* before it but for ping.alm_cmd and ping.dng_cmd.
C26_PureClassifier ==
    /\ TriageTX(Sent) = TriageTX(SensorFields(Sent))
    /\ TriageMaster(Got) = TriageMaster(SensorFields(Got))
    /\ \A a \in AlarmTypes, d \in DngLevels :
          LET n == [tx EXCEPT !.SentMessage = WithAlarm(Sent, a, d),
                              !.almNum = a, !.dngNum = d]
              m == [rx EXCEPT !.ReceivedMessage = WithAlarm(Got, a, d),
                              !.alm_msg = a, !.dng_msg = d]
          IN  /\ triage_data(n).SentMessage = triage_data(tx).SentMessage
              /\ WithAlarm(triage_data(n).SentMessage, a, d) = n.SentMessage
              /\ triage_msg(m).ReceivedMessage = triage_msg(rx).ReceivedMessage
              /\ WithAlarm(triage_msg(m).ReceivedMessage, a, d)
                    = m.ReceivedMessage

\* C26: the node has classified a record of a hot, humid room with motion
\* and the Master has classified the same record.
C26_Witness ==
    /\ Written /\ Classified
    /\ Sent.c_val = 41 /\ Sent.h_val = 85 /\ Sent.pir_state = 1
    /\ Sent.ping.alm_cmd = INTRUDER /\ Sent.ping.dng_cmd = DNG_HIGH
    /\ Got.ping.alm_cmd = INTRUDER
    /\ Got.radNum = 5 /\ Got.chNum = 81


\* The alarm of one test has the danger of the other at least when it is
\* the higher alarm.
AscendingSeverity(tests) ==
    \A t \in tests, u \in tests : (t[2] > u[2]) => (t[3] >= u[3])

\* The pair is that of one test that fires, or (ALM_NONE, DNG_NONE) when
\* none fires.
PairOfOneTest(tests, alm, dng) ==
    \/ \E t \in tests : t[1] /\ t[2] = alm /\ t[3] = dng
    \/ /\ \A t \in tests : ~t[1]
       /\ alm = ALM_NONE /\ dng = DNG_NONE

\* C27: of any two threshold tests of triage_data, and of triage_msg, the
\* one with the higher Alarm_type has a Dng_level at least as high, and so
\* the alarm and the danger in the record the node has written, and in the
\* record the Master has classified, are the alarm and the danger of one
\* and the same test that fired.
C27_AscendingSeverity ==
    /\ Written => /\ AscendingSeverity(TestsTX(Sent))
                  /\ PairOfOneTest(TestsTX(Sent), Sent.ping.alm_cmd,
                                   Sent.ping.dng_cmd)
    /\ Classified => /\ AscendingSeverity(TestsMaster(Got))
                     /\ PairOfOneTest(TestsMaster(Got), Got.ping.alm_cmd,
                                      Got.ping.dng_cmd)


\* C29: intruderFlag goes from set to clear only in the step that follows
\* the radio.write of transmit_pir_state, with the radio listening again
\* and nothing more written; it is clear when transmit_pir_state has
\* returned (the loop is at the audio gate); the radio.write is made with
\* the flag set and is followed by the clearing, so a latched flag is
\* written once.  The same for audioFlag and transmit_audio_gate, which
\* returns to receive_msg.
C29_FlagClearedAfterWrite ==
    [][ /\ (tx.intruderFlag /\ ~tx'.intruderFlag) =>
              /\ pc = "pir_clear" /\ tx.radio.listening
              /\ air'.toMaster = air.toMaster
        /\ (tx.audioFlag /\ ~tx'.audioFlag) =>
              /\ pc = "audio_clear" /\ tx.radio.listening
              /\ air'.toMaster = air.toMaster
        /\ (pc' = "audio") => ~tx'.intruderFlag
        /\ (pc' = "recv") => ~tx'.audioFlag
        /\ (pc = "pir_write" /\ pc' # pc) =>
              /\ tx.intruderFlag /\ pc' = "pir_clear"
              /\ Len(air'.toMaster) <= Len(air.toMaster) + 1
        /\ (pc = "audio_write" /\ pc' # pc) =>
              /\ tx.audioFlag /\ pc' = "audio_clear"
              /\ Len(air'.toMaster) <= Len(air.toMaster) + 1
        /\ (pc = "pir_clear" /\ pc' # pc) => pc' = "audio"
        /\ (pc = "audio_clear" /\ pc' # pc) => pc' = "recv"
      ]_vars

\* C29: transmit_audio_gate has returned after a motion record and an
\* audio record were written: both flags are clear and the one record
\* still waiting at the Master is the audio record.
C29_Witness ==
    /\ pc = "recv" /\ ~tx.intruderFlag /\ ~tx.audioFlag
    /\ tx.pir_pin_val = 1 /\ tx.audio_gate_val = 1
    /\ tx.radio.listening
    /\ Len(air.toMaster) = 1 /\ Head(air.toMaster).wrote.audio_gate = 1
    /\ Classified /\ Got.pir_state = 1


(***************************************************************************)
(* The interrupt handlers (SpecIrq).                                       *)
(***************************************************************************)
\* A step of one of the handlers.
Interrupt ==
    AudioInterrupt \/ PirInterrupt \/ MsgInterrupt \/ MasterMsgInterrupt

\* The node but for the three variables the handlers store into, and the
\* Master but for its one.
BesidesPins(n) ==
    [n EXCEPT !.audio_gate_val = 0, !.pir_pin_val = 0, !.msg_pin_val = 0]

BesidesMsgPin(m) == [m EXCEPT !.msg_pin_val = 0]

\* C30: a step of audioISR, pirISR or msgISR of the node, or of msgISR of
\* the Master, wherever the main loop stands, leaves the radio (mode,
\* channel, power, pipes), SentMessage and PongMessage, ReceivedMessage
\* and PingMessage, radNum, chNum and pwrNum, the flags, the position of
\* the loop and what is on the air as they were: nothing changes but
\* audio_gate_val, pir_pin_val and msg_pin_val.
C30_HandlersStoreOnly ==
    [][ Interrupt =>
           /\ tx'.radio = tx.radio /\ rx'.radio = rx.radio
           /\ tx'.SentMessage = tx.SentMessage
           /\ tx'.PongMessage = tx.PongMessage
           /\ rx'.ReceivedMessage = rx.ReceivedMessage
           /\ rx'.PingMessage = rx.PingMessage
           /\ Identity(tx') = Identity(tx)
           /\ MasterIdentity(rx') = MasterIdentity(rx)
           /\ BesidesPins(tx') = BesidesPins(tx)
           /\ BesidesMsgPin(rx') = BesidesMsgPin(rx)
           /\ pc' = pc /\ air' = air
      ]_vars

\* C30: the handlers have stored a high pin while the node stood between
\* radio.stopListening() and the radio.write of a reply, no flag latched,
\* and the Master's handler has stored a high pin with a record waiting.
C30_Witness ==
    /\ pc = "resp_write" /\ ~tx.radio.listening
    /\ tx.pir_pin_val = 1 /\ tx.audio_gate_val = 1 /\ tx.msg_pin_val = 1
    /\ ~tx.intruderFlag /\ ~tx.audioFlag
    /\ rx.msg_pin_val = 1 /\ air.toMaster # <<>>


(***************************************************************************)
(* Two nodes (SpecPair).                                                   *)
(***************************************************************************)
\* C28: the Master sends no rad_chg and no all_chg ping (its pings are
\* those of 'K', nada, and of 'x', pa_chg); two nodes set to distinct radio
\* numbers at the start have distinct radio numbers whenever the first is
\* at the top of its loop (the second is between two iterations of its
\* loop in every state), whatever pings, replies and motion or audio
\* records were sent.
C28_DistinctRadioIds ==
    /\ rx.PingMessage.my_cmd \notin {rad_chg, all_chg}
    /\ (pc = "pir") => (tx.radNum # peer.radNum)


(***************************************************************************)
(* The handlers against the polls of loop() (SpecLatch): the node alone,   *)
(* pirISR and audioISR running at any moment, the 'K' ping arriving at     *)
(* any receive_msg.  stored remembers that the last thing a handler did    *)
(* during a send operation was to store a high pin.                        *)
(***************************************************************************)
PirStores ==
    /\ \E v \in {0, 1} :
          /\ tx' = pirISR(tx, v)
          /\ stored' = [stored EXCEPT !.pir = InSendCycle /\ (v = 1)]
    /\ UNCHANGED <<pc, hist, rx, air, peer>>

AudioStores ==
    /\ \E v \in {0, 1} :
          /\ tx' = audioISR(tx, v)
          /\ stored' = [stored EXCEPT !.audio = InSendCycle /\ (v = 1)]
    /\ UNCHANGED <<pc, hist, rx, air, peer>>

\* loop(): pir_pin_val = digitalRead(PIR_PIN); ... with the history.
LatchPollPir ==
    /\ PollPir
    /\ stored' = [stored EXCEPT !.pir = FALSE]
    /\ UNCHANGED <<rx, air, peer>>

\* loop(): audio_gate_val = digitalRead(PIN_GATE_IN); ... with the history.
LatchPollAudio ==
    /\ PollAudio
    /\ stored' = [stored EXCEPT !.audio = FALSE]
    /\ UNCHANGED <<rx, air, peer>>

LatchReadPong ==
    /\ ReadPongOf(ConsolePing("K"))
    /\ UNCHANGED <<rx, air, peer, stored>>

InitLatch ==
    /\ tx = setup
    /\ pc = "pir"
    /\ hist = NoHist
    /\ rx = masterSetup
    /\ air = NoAir
    /\ peer = setup
    /\ stored = NoneStored

NextLatch ==
    \/ LatchPollPir
    \/ (PirPack /\ UNCHANGED <<rx, air, peer, stored>>)
    \/ (PirWrite /\ UNCHANGED <<rx, air, peer, stored>>)
    \/ (PirClear /\ UNCHANGED <<rx, air, peer, stored>>)
    \/ LatchPollAudio
    \/ (AudioPack /\ UNCHANGED <<rx, air, peer, stored>>)
    \/ (AudioWrite /\ UNCHANGED <<rx, air, peer, stored>>)
    \/ (AudioClear /\ UNCHANGED <<rx, air, peer, stored>>)
    \/ (NoMessage /\ UNCHANGED <<rx, air, peer, stored>>)
    \/ LatchReadPong
    \/ (Apply /\ UNCHANGED <<rx, air, peer, stored>>)
    \/ (Reinit /\ UNCHANGED <<rx, air, peer, stored>>)
    \/ (RespPack /\ UNCHANGED <<rx, air, peer, stored>>)
    \/ (RespWrite /\ UNCHANGED <<rx, air, peer, stored>>)
    \/ (NoConsole /\ UNCHANGED <<rx, air, peer, stored>>)
    \/ PirStores
    \/ AudioStores

SpecLatch == InitLatch /\ [][NextLatch]_vars

\* C31: when pirISR (audioISR) has stored a high pin during a send
\* operation, the next read of that pin by loop() latches intruderFlag
\* (audioFlag) and the send operation is run.
C31_StoredValueObserved ==
    [][ /\ (stored.pir /\ pc = "pir" /\ pc' # pc) =>
              (tx'.intruderFlag /\ pc' = "pir_pack")
        /\ (stored.audio /\ pc = "audio" /\ pc' # pc) =>
              (tx'.audioFlag /\ pc' = "audio_pack")
      ]_vars


(***************************************************************************)
(* The Command Negotiator as a state machine (SpecFair).                   *)
(***************************************************************************)
\* Applying: the node is at the switch of get_pong_cmd_RX.
Applying == pc = "switch"

\* The node is inside receive_msg after the radio.read: at the switch, at
\* setupTXRadio or in the reply.  Idle is any other position.
Negotiating == pc \in {"switch", "setup", "resp_pack", "resp_write"}

\* C32: a ping is read only when the negotiator is idle (receive_msg polls
\* the radio) and the same step loads it and tests the guard (Matching);
\* the switch is entered only by that step and only when the guard holds
\* on the values just loaded, and is left for setupTXRadio; and whenever
\* the node is inside receive_msg after a read, whatever the ping, it is
\* eventually out of it again with the radio listening.
C32_NegotiatorMachine ==
    /\ [][ /\ (Negotiating' /\ ~Negotiating) =>
                 /\ pc = "recv" /\ hist'.active
                 /\ pc' = IF PongGuard(tx') THEN "switch" ELSE "setup"
           /\ (Applying' /\ ~Applying) =>
                 /\ pc = "recv" /\ PongGuard(tx')
           /\ (Applying /\ ~Applying') => pc' = "setup"
         ]_vars
    /\ (Negotiating ~> (~Negotiating /\ tx.radio.listening))

\* C32: receive_msg has returned after a ping that passed the guard and
\* went through the switch, and after one that did not; the radio listens.
C32_Witness ==
    /\ pc = "serial" /\ hist.active /\ hist.applied
    /\ tx.radio.listening
    /\ tx.PongMessage.my_cmd = all_chg


\* C33: when receive_msg has finished with a ping, whatever its command,
\* the node's chNum and the channel of its radio are those it had when the
\* ping arrived; and when the command applied was chan_chg or all_chg, the
\* ping's channel is that channel.
C33_ChannelNeverMoves ==
    Processed =>
       /\ tx.chNum = hist.pre.id.chNum
       /\ tx.radio.channel = hist.pre.radio.channel
       /\ (Ran(chan_chg) \/ Ran(all_chg)) => Rec.ch_cmd = tx.chNum


\* C34: a ping read by receive_msg, whether the guard holds or not, is
\* followed by setupTXRadio(radNum,chNum,pwrNum) and then by
\* transmit_response_to_RX with respFlag set: the reply is packed only
\* after the re-initialisation, written only after it is packed, the
\* write returns to serialCommOutput, and there is no other way into any
\* of these; and every ping read does lead to the radio.write of the
\* reply, which leads to receive_msg returning.
C34_OneReplyPerPing ==
    /\ [][ /\ (pc = "recv" /\ hist'.active) => pc' \in {"switch", "setup"}
           /\ (pc = "setup" /\ pc' # pc) =>
                 /\ pc' = "resp_pack" /\ tx'.respFlag
                 /\ tx'.radio =
                      setupTXRadio(tx, tx.radNum, tx.chNum, tx.pwrNum).radio
           /\ (pc = "resp_pack" /\ pc' # pc) =>
                 /\ pc' = "resp_write"
                 /\ tx'.SentMessage.radNum = tx.radNum
           /\ (pc = "resp_write" /\ pc' # pc) => pc' = "serial"
           /\ (pc' = "resp_write" /\ pc' # pc) => pc = "resp_pack"
           /\ (pc' = "resp_pack" /\ pc' # pc) => pc = "setup"
           /\ (pc' = "setup" /\ pc' # pc) =>
                 /\ pc \in {"recv", "switch"} /\ hist'.active
         ]_vars
    /\ ((pc \in {"switch", "setup"}) ~> (pc = "resp_write"))
    /\ ((pc = "resp_write") ~> (pc = "serial" /\ tx.radio.listening))

\* C34: the reply to a ping that failed the guard has been written.
C34_Witness ==
    /\ pc = "serial" /\ hist.active /\ ~hist.applied
    /\ tx.PongMessage.my_cmd = rad_chg
    /\ tx.respFlag /\ tx.radio.listening
    /\ Sent.radNum = tx.radNum /\ Sent.ping.r_cmd = tx.radNum


\* The node has packed, and so written, a record since setup().
HasSent == Sent.radNum # 0

\* C35: without console overrides, whenever receive_msg polls the radio
\* and the node has sent a record, ping.ch_cmd, ping.r_cmd and ping.pa_cmd
\* of SentMessage[0] are the node's chNum, radNum and pwrNum, which are
\* what the radio is set to; so get_pong_cmd, whatever the ping it loads,
\* leaves chNum, radNum and pwrNum as they are.
C35_LastSentIsIdentity ==
    (pc = "recv" /\ HasSent) =>
       /\ Sent.ping.ch_cmd = tx.chNum
       /\ Sent.ping.r_cmd = tx.radNum
       /\ Sent.ping.pa_cmd = tx.pwrNum
       /\ tx.radio.channel = tx.chNum
       /\ tx.radio.wpipe = tx.radNum
       /\ tx.radio.pa = tx.pwrNum
       /\ \A p \in FairPings :
             Identity(get_pong_cmd([tx EXCEPT !.PongMessage = p]))
                = Identity(tx)

\* C35: the node polls the radio as radio 2 at the highest power, which
\* pings have made it, and its last record says so.
C35_Witness ==
    /\ pc = "recv" /\ HasSent
    /\ tx.radNum = 2 /\ tx.pwrNum = PA_MAX /\ tx.chNum = 81
    /\ Sent.ping.r_cmd = 2 /\ Sent.ping.pa_cmd = PA_MAX
    /\ Sent.ping.ch_cmd = 81


\* C36: the record transmit_pir_state is about to write has pir_state set
\* and audio_gate clear, the record of transmit_audio_gate has audio_gate
\* set and pir_state clear, the record of transmit_response_to_RX has both
\* clear; no record on its way to the Master, and none the Master has read,
\* has both set.
C36_OneTriggerPerRecord ==
    /\ (pc = "pir_write") => (Sent.pir_state = 1 /\ Sent.audio_gate = 0)
    /\ (pc = "audio_write") => (Sent.pir_state = 0 /\ Sent.audio_gate = 1)
    /\ (pc = "resp_write") => (Sent.pir_state = 0 /\ Sent.audio_gate = 0)
    /\ \A i \in 1..Len(air.toMaster) :
          ~(air.toMaster[i].wrote.pir_state = 1
              /\ air.toMaster[i].wrote.audio_gate = 1)
    /\ Classified => ~(Got.pir_state = 1 /\ Got.audio_gate = 1)

\* C36: both pins were high in this iteration of the loop; the motion
\* record is on its way to the Master and the audio record is about to be
\* written.
C36_Witness ==
    /\ pc = "audio_write"
    /\ tx.pir_pin_val = 1 /\ tx.audio_gate_val = 1
    /\ Sent.pir_state = 0 /\ Sent.audio_gate = 1
    /\ air.toMaster # <<>>
    /\ Head(air.toMaster).wrote.pir_state = 1
    /\ Head(air.toMaster).wrote.audio_gate = 0


\* The source fields of a record agree with its embedded ping.
SourceAgrees(m) ==
    /\ m.radNum = m.ping.r_cmd
    /\ m.chNum = m.ping.ch_cmd

\* C37: the record the node is about to radio.write, every record on its
\* way to the Master and every record the Master has read has radNum equal
\* to ping.r_cmd and chNum equal to ping.ch_cmd; and rad_msg, on which the
\* Master's receive_rm dispatches, is the radNum of the record read, the
\* radNum of the node when it wrote the record.
C37_SourceAgrees ==
    /\ Sending => /\ SourceAgrees(Sent)
                  /\ Sent.radNum = tx.radNum
                  /\ Sent.chNum = tx.chNum
    /\ \A i \in 1..Len(air.toMaster) : SourceAgrees(air.toMaster[i].wrote)
    /\ Classified => /\ SourceAgrees(Got)
                     /\ rx.rad_msg = Got.radNum
                     /\ rx.ch_msg = Got.chNum

\* C37: the Master has read and dispatched a record the node wrote after
\* a command of the Master gave it another radio number than setup's.
C37_Witness ==
    /\ Classified
    /\ Got.radNum # 5 /\ Got.radNum = Got.ping.r_cmd
    /\ rx.rad_msg = Got.radNum
    /\ Got.chNum = 81 /\ Got.ping.ch_cmd = 81
    /\ tx.radNum = Got.radNum


(***************************************************************************)
(* The Master alone, with a transmitter that is not one of the nodes       *)
(* writing on one of its reading pipes: radio.read of receive_data takes   *)
(* whatever record arrives, with any radio number in radNum and in         *)
(* ping.r_cmd.                                                             *)
(***************************************************************************)
StrayRadios == {-1, 0, 3, 6}

\* What a stray record says of motion and audio, and the alarm it carries.
StrayReadings ==
    { [pir |-> 0, gate |-> 0, alm |-> ALM_NONE, dng |-> DNG_NONE],
      [pir |-> 1, gate |-> 0, alm |-> ALM_NONE, dng |-> DNG_NONE],
      [pir |-> 0, gate |-> 1, alm |-> ALM_NONE, dng |-> DNG_NONE],
      [pir |-> 1, gate |-> 1, alm |-> TEMP_FIRE, dng |-> DNG_MAX] }

StrayRecords ==
    { dataStruct(81, rn, 450, 40, 25, 77, t.pir, t.gate,
                 pingCmd(nada, 81, r, PA_MIN, 0, t.alm, t.dng)) :
        rn \in {3, 6}, r \in StrayRadios, t \in StrayReadings }

\* A record arrives in the RX FIFO of the Master.
StrayWrite ==
    /\ rx.radio.listening
    /\ Len(air.toMaster) < FifoDepth
    /\ \E r \in StrayRecords :
          air' = [air EXCEPT !.toMaster = Append(@,
                     [payload |-> write_SentMessage(r), wrote |-> r])]
    /\ UNCHANGED <<tx, pc, hist, rx, peer, stored>>

InitStray ==
    /\ tx = setup
    /\ pc = "pir"
    /\ hist = NoHist
    /\ rx = masterSetup
    /\ air = NoAir
    /\ peer = setup
    /\ stored = NoneStored

NextStray ==
    \/ StrayWrite
    \/ MasterNext

SpecStray == InitStray /\ [][NextStray]_vars

\* C38: when the Master reads a record whose ping.r_cmd, on which
\* receive_rm dispatches, is outside 0..5, the LCD keeps what it showed,
\* neither pir_routine nor audio_routine prints a line, ReceivedMessage[0]
\* is the record as it was written, with the alarm and danger it carried
\* (which alm_msg and dng_msg repeat), the radio is as it was, in RX mode,
\* and the loop goes on to serialCommOutput.
C38_StrayDropped ==
    [][ (Receives /\ Incoming.ping.r_cmd \notin 0..5) =>
            /\ rx'.lcd = rx.lcd
            /\ rx'.serial = <<>>
            /\ rx'.ReceivedMessage = Incoming
            /\ rx'.alm_msg = Incoming.ping.alm_cmd
            /\ rx'.dng_msg = Incoming.ping.dng_cmd
            /\ rx'.radio = rx.radio
            /\ rx'.radio.listening
            /\ rx'.at = "serial"
      ]_vars

\* C38: the Master has read a record of radio 6 with motion set, which its
\* classifier would call an intruder: the record still carries no alarm,
\* no routine has run, and the LCD still shows a record of radio 3 read
\* before; the radio is in RX mode.
C38_Witness ==
    /\ rx.read
    /\ Got.ping.r_cmd = 6 /\ Got.pir_state = 1
    /\ Got.ping.alm_cmd = ALM_NONE /\ Got.ping.dng_cmd = DNG_NONE
    /\ TriageMaster(Got).alm = INTRUDER
    /\ rx.serial = <<>>
    /\ rx.lcd[1] = <<"Ch:", 81, "R:", 3, "CO2:", 450>>
    /\ rx.radio.listening

=============================================================================
